----------------------------- MODULE Secp256k1 ------------------------------
(***************************************************************************)
(* The check of a Schnorr signature that the page makes of every profile a *)
(* relay sends: schnorr.verify of webroot/script/nostr.bundle.js with the  *)
(* field, the curve y^2 = x^3 + B, its endomorphism and the windowed       *)
(* multiplication beneath it, over a field small enough to try all values. *)
(* Numbers are what bytes decode to; a decoy that only keeps the time of a *)
(* multiplication constant is left out.  An error is the value None.     *)
(***************************************************************************)
EXTENDS Integers, Sequences

CONSTANTS
  P, N,            \* CURVE.p and CURVE.n: primes
  Gx, Gy, B,       \* the generator and the equation
  Beta,            \* a cube root of 1 in the field
  A1, B1neg, A2,   \* splitScalar's short vectors
  HalfBits,        \* half the bits of n: 128
  W                \* _WINDOW_SIZE of the generator: 8

ASSUME CurveAssumption ==
  /\ {P, N, Gx, Gy, B, Beta, A1, B1neg, A2, HalfBits, W} \subseteq Nat
  /\ P % 4 = 3 /\ (Gy * Gy) % P = (Gx * Gx * Gx + B) % P
  /\ Beta # 1 /\ (Beta * Beta * Beta) % P = 1

None == -1

mod(a, b) == a % b

RECURSIVE Euclid(_, _, _, _)
Euclid(a, b, x, u) ==
  IF a = 0 THEN <<b, x>> ELSE Euclid(b % a, a, u, x - u * (b \div a))

invert(number, modulo) ==
  LET gcd == Euclid(mod(number, modulo), modulo, 0, 1)
  IN IF number = 0 \/ gcd[1] # 1 THEN None ELSE mod(gcd[2], modulo)

RECURSIVE Power(_, _)
Power(x, k) ==
  IF k = 0 THEN 1
  ELSE LET half == Power(mod(x * x, P), k \div 2)
       IN IF k % 2 = 1 THEN mod(x * half, P) ELSE half

(* By a chain of squares and products that comes to this power. *)
sqrtMod(y) ==
  LET root == Power(y, (P + 1) \div 4)
  IN IF mod(root * root, P) = mod(y, P) THEN root ELSE None

----------------------------------------------------------------------------
(* Points in projective coordinates; infinity is <<0, 1, 0>>. *)

ZERO == <<0, 1, 0>>
BASE == <<Gx, Gy, 1>>

Reduced(x, y, z) == <<mod(x, P), mod(y, P), mod(z, P)>>

equals(p, q) ==
  /\ mod(p[1] * q[3], P) = mod(q[1] * p[3], P)
  /\ mod(p[2] * q[3], P) = mod(q[2] * p[3], P)

is0(p) == equals(p, ZERO)

negate(p) == Reduced(p[1], -p[2], p[3])

(* The formulas of Renes, Costello and Batina for a = 0. *)
double(p) ==
  LET t1 == mod(p[2] * p[2], P)
      b3 == mod(3 * B * p[3] * p[3], P)
      t0 == mod(3 * p[1] * p[1], P)
      t2 == mod(2 * p[2] * p[3], P)
      t3 == mod(6 * B * p[1] * p[3], P)
  IN Reduced(2 * mod(p[1] * p[2], P) * (t1 - b3) - t2 * t3,
             (t1 - b3) * (t1 + b3) + t0 * t3,
             4 * t2 * t1)

add(p, q) ==
  LET t0 == mod(3 * p[1] * q[1], P)
      t1 == mod(p[2] * q[2], P)
      b3 == mod(3 * B * p[3] * q[3], P)
      t3 == mod((p[1] + p[2]) * (q[1] + q[2]) - p[1] * q[1] - t1, P)
      t4 == mod(3 * B * ((p[1] + p[3]) * (q[1] + q[3]) - p[1] * q[1] - p[3] * q[3]), P)
      t5 == mod((p[2] + p[3]) * (q[2] + q[3]) - t1 - p[3] * q[3], P)
  IN Reduced(t3 * (t1 - b3) - t5 * t4,
             (t1 - b3) * (t1 + b3) + t0 * t4,
             t5 * (t1 + b3) + t3 * t0)

toAffine(p) ==
  LET iz == invert(p[3], P)
  IN IF is0(p) THEN <<0, 0>> ELSE <<mod(p[1] * iz, P), mod(p[2] * iz, P)>>

fromAffine(a) == IF a = <<0, 0>> THEN ZERO ELSE <<a[1], a[2], 1>>

hasEvenY(p) == toAffine(p)[2] % 2 = 0

assertValidity(p) ==
  LET a == toAffine(p)
  IN ~is0(p) /\ mod(a[2] * a[2], P) = mod(a[1] * a[1] * a[1] + B, P)

----------------------------------------------------------------------------
(* Multiplication.  A scalar is split into two of half its bits, k1 + k2 * *)
(* lambda, and lambda times a point is the point with its x times beta.    *)

b1 == -B1neg
b2 == A1

divNearest(a, b) == (a + b \div 2) \div b

Half(k) == LET neg == k > 2 ^ HalfBits
           IN [neg |-> neg, k |-> IF neg THEN N - k ELSE k]

(* An error, here <<>>, if a half is too long even so. *)
splitScalar(k) ==
  LET c1 == divNearest(b2 * k, N)
      c2 == divNearest(-b1 * k, N)
      halves == <<Half(mod(k - c1 * A1 - c2 * A2, N)), Half(mod(-c1 * b1 - c2 * b2, N))>>
  IN IF \E i \in {1, 2} : halves[i].k > 2 ^ HalfBits THEN <<>> ELSE halves

Joined(halves, k1p, k2p) ==
  LET Signed(i, p) == IF halves[i].neg THEN negate(p) ELSE p
      k2s == Signed(2, k2p)
  IN add(Signed(1, k1p), Reduced(k2s[1] * Beta, k2s[2], k2s[3]))

RECURSIVE Ladder(_, _, _)
Ladder(k, p, d) ==
  IF k = 0 THEN p ELSE Ladder(k \div 2, IF k % 2 = 1 THEN add(p, d) ELSE p, double(d))

multiplyUnsafe(p, k) ==
  IF k = 0 THEN ZERO
  ELSE IF k = 1 THEN p
  ELSE LET halves == splitScalar(k)
       IN Joined(halves, Ladder(halves[1].k, ZERO, p), Ladder(halves[2].k, ZERO, p))

(* Windows of a point: in window w its multiples by 1 up to windowSize     *)
(* times 2^(w * width).                                                    *)
windows(width)    == (HalfBits + width - 1) \div width + 1
windowSize(width) == 2 ^ (width - 1)

precomputeWindow(p, width) ==
  LET firsts[w \in 0 .. windows(width)] ==
        IF w = 0 THEN p
        ELSE LET base[i \in 1 .. windowSize(width)] ==
                   IF i = 1 THEN firsts[w - 1] ELSE add(base[i - 1], firsts[w - 1])
             IN double(base[windowSize(width)])
      points[w \in 0 .. windows(width) - 1, i \in 1 .. windowSize(width)] ==
        IF i = 1 THEN firsts[w] ELSE add(points[w, i - 1], firsts[w])
  IN points

(* Those of the generator are made once, and are in affine coordinates.    *)
pointPrecomputes ==
  LET points == precomputeWindow(BASE, W)
  IN [wi \in DOMAIN points |-> fromAffine(toAffine(points[wi]))]

(* Mutant of wNAF: a digit of more than half a window lends nothing. *)
RECURSIVE wNAFUncarried(_, _, _, _, _)
wNAFUncarried(width, precomputes, w, n, p) ==
  LET wbits == n % 2 ^ width
  IN IF w = windows(width) THEN p
     ELSE wNAFUncarried(width, precomputes, w + 1, n \div 2 ^ width,
       IF wbits = 0 THEN p
       ELSE IF wbits <= windowSize(width) THEN add(p, precomputes[w, wbits])
       ELSE add(p, negate(precomputes[w, 2 ^ width - wbits])))

(* The digits of n, from the lowest: a digit of more than half a window is *)
(* taken as negative and lends one to the next.                            *)
RECURSIVE wNAF(_, _, _, _, _)
wNAF(width, precomputes, w, n, p) ==
  LET wbits == n % 2 ^ width
      Rest(m, q) == wNAF(width, precomputes, w + 1, m, q)
  IN IF w = windows(width) THEN p
     ELSE IF wbits = 0 THEN Rest(n \div 2 ^ width, p)
     ELSE IF wbits <= windowSize(width) THEN Rest(n \div 2 ^ width, add(p, precomputes[w, wbits]))
     ELSE Rest(n \div 2 ^ width + 1, add(p, negate(precomputes[w, 2 ^ width - wbits])))

(* A point has the window size of the generator only if it is the object   *)
(* BASE itself; otherwise it is 1 and nothing is kept.                     *)
wNAFCached(p, isBASE, n) ==
  IF isBASE THEN wNAF(W, pointPrecomputes, 0, n, ZERO)
  ELSE wNAF(1, precomputeWindow(p, 1), 0, n, ZERO)

multiply(p, isBASE, k) ==
  LET halves == splitScalar(k)
  IN fromAffine(toAffine(Joined(halves, wNAFCached(p, isBASE, halves[1].k),
                                        wNAFCached(p, isBASE, halves[2].k))))

(* a times the generator and b times q, which may be the same point.       *)
multiplyAndAddUnsafe(q, a, b) ==
  LET mul3(p, isBASE, k) ==
        IF k \in {0, 1} \/ ~equals(p, BASE) THEN multiplyUnsafe(p, k) ELSE multiply(p, isBASE, k)
  IN add(mul3(BASE, TRUE, a), mul3(q, FALSE, b))

----------------------------------------------------------------------------
(* Signatures *)

fe(x) == 0 < x /\ x < P
ge(x) == 0 < x /\ x < N

(* The point with an even y, or ZERO for an error. *)
lift_x(x) ==
  LET y == sqrtMod(mod(x * x * x + B, P))
      p == <<x, IF y % 2 # 0 THEN mod(-y, P) ELSE y, 1>>
  IN IF fe(x) /\ y # None /\ assertValidity(p) THEN p ELSE ZERO

(* The first halves with which a second half is accepted.  The challenge e *)
(* is what a hash of r, the key and the message comes to: any number.      *)
schnorrVerify(pub, s, e) ==
  LET p == lift_x(pub)
      R == multiplyAndAddUnsafe(p, s, mod(-e, N))
      splits == \A k \in {s, mod(-e, N)} : k \in {0, 1} \/ splitScalar(k) # <<>>
      accepted == p # ZERO /\ ge(s) /\ splits /\ ~is0(R) /\ hasEvenY(R)
      x == toAffine(R)[1]
  IN {r \in 0 .. P : accepted /\ fe(r) /\ x = r}
=============================================================================
