---------------------------- MODULE Computations ----------------------------
(***************************************************************************)
(* What the page computes without keeping any state: the check of a        *)
(* profile's signature and hash, the references of a message, the meaning  *)
(* of an amount, and the age of a boost, each against a definition of what *)
(* it should come to.  A state holds what is computed, with its arguments. *)
(***************************************************************************)
EXTENDS Secp256k1, Nip19, PageReading

CONSTANTS
  Few,           \* scalars that are tried with all others
  Contents,      \* references as clients write them: records of prefix and data,
                 \* of the key that they name and of how the page takes them:
                 \* "readable", "long" or, for a byte left over, "endless"
  Letters,       \* letters that a mistyped reference may get
  WordLists      \* messages, of the numbers of a reference, 0: a word, -1: a tag

CheckSignature ==
  \/ /\ task.is = "none"
     /\ \E pub \in 0 .. P : task' = [is |-> "profile", pub |-> pub]
  \/ /\ task.is = "profile"
     /\ \E s \in 0 .. N, e \in 0 .. N - 1 :
          /\ {s, e} \cap Few # {}
          /\ task' = [is |-> "signature", pub |-> task.pub, s |-> s, e |-> e]

(* A reference as a client encodes it. *)
Text(content) ==
  LET words == toWords(content.data)
  IN [is |-> "reference", prefix |-> content.prefix, mixed |-> FALSE,
      letters |-> words \o bechChecksum(content.prefix, words)]

Texts == [k \in DOMAIN Contents |-> Text(Contents[k])]

PartOf(k) == CASE k = 0 -> Part("word") [] k = -1 -> Part("tag") [] OTHER -> Texts[k]

Keys == {Contents[k].key : k \in DOMAIN Contents}

ReadMessage ==
  /\ task.is = "none"
  /\ \E words \in WordLists, names \in [Keys -> NameForms] :
       task' = [is |-> "message", names |-> names, parts |-> [i \in DOMAIN words |-> PartOf(words[i])]]

(* One letter wrong, two neighbours swapped, one lost, or capitals. *)
Mistypings(text) ==
  LET a == text.letters
      Put(b) == [text EXCEPT !.letters = b]
  IN {Put([a EXCEPT ![i] = c]) : i \in DOMAIN a, c \in Letters}
     \cup {Put([a EXCEPT ![i] = a[i + 1], ![i + 1] = a[i]]) : i \in 1 .. Len(a) - 1}
     \cup {Put(RemoveAt(a, i)) : i \in DOMAIN a}
     \cup {[text EXCEPT !.mixed = TRUE]}
     \cup {[text EXCEPT !.prefix = p] : p \in {q \in DOMAIN Prefixes19 : q # text.prefix}}

ReadMistyped ==
  /\ task.is = "none"
  /\ \E k \in DOMAIN Contents : \E part \in Mistypings(Texts[k]) :
       task' = [is |-> "message", names |-> [key \in Keys |-> "none"], parts |-> <<part, Part("word")>>]

Next == CheckSignature \/ ReadMessage \/ ReadMistyped \/ ReadingNext

Spec == ReadingInit /\ [][Next]_task

----------------------------------------------------------------------------
(* The multiples of the generator by the law of chord and tangent. *)
Plus(p, q) ==
  LET slope == IF p = q THEN 3 * p[1] * p[1] * invert((2 * p[2]) % P, P)
               ELSE (q[2] - p[2]) * invert((q[1] - p[1]) % P, P)
      x == ((slope % P) * (slope % P) - p[1] - q[1]) % P
  IN IF p[1] = q[1] /\ p # q THEN <<0, 0>>
     ELSE <<x, ((slope % P) * (p[1] - x) - p[2]) % P>>

Multiple ==
  LET f[k \in 1 .. N - 1] == IF k = 1 THEN <<Gx, Gy>> ELSE Plus(f[k - 1], <<Gx, Gy>>)
  IN f

HasEvenMultiple(k) == k # 0 /\ Multiple[k][2] % 2 = 0

(* A signature is accepted exactly when its equation holds: s times the    *)
(* generator is the key times e plus a point with an even y, whose x is    *)
(* the signature's first half; though the code splits the scalars, goes by *)
(* windows and adds all points with one formula (schnorrVerify and what it *)
(* calls).                                                                 *)
SignaturesAreChecked ==
  task.is = "signature" =>
    LET keys == {d \in 1 .. N - 1 : HasEvenMultiple(d) /\ Multiple[d][1] = task.pub}
        sums == {(task.s - task.e * d) % N : d \in keys}
    IN schnorrVerify(task.pub, task.s, task.e) =
         IF task.s \in 1 .. N - 1 THEN {Multiple[k][1] : k \in {k \in sums : HasEvenMultiple(k)}} ELSE {}

(* In a message that has no tag, no reference twice and none that lets the *)
(* page hang, every reference that a client encoded becomes a link with    *)
(* the name of its key or else its text, and all else stays, mistyped      *)
(* references too; unless the look-up of one of the names is rejected: then*)
(* nothing at all becomes a link (replaceNostrReferences).  Left out are   *)
(* names with a $ before another sign, and the message that has a reference*)
(* twice, where the address of the first link is replaced.                 *)
ContentOf(part) == {Contents[k] : k \in {k \in DOMAIN Contents : part = Texts[k]}}

NameOf(content, names) == IF content.prefix \in {"npub", "nprofile"} THEN names[content.key] ELSE "none"

Linked(part, names) ==
  IF part.is = "reference" /\ \E content \in ContentOf(part) : content.how = "readable"
  THEN LET content == CHOOSE content \in ContentOf(part) : TRUE
           label   == IF NameOf(content, names) = "plain" THEN [is |-> "name", key |-> content.key] ELSE part
       IN <<Part("<a href"), part, Part(">"), label, Part("</a>")>>
  ELSE <<part>>

Simple(parts, names) ==
  /\ \A i \in DOMAIN parts : parts[i].is # "tag"
  /\ \A i, j \in DOMAIN parts : parts[i] = parts[j] => i = j \/ parts[i].is = "word"
  /\ \A i \in DOMAIN parts : \A content \in ContentOf(parts[i]) :
       content.how # "endless" /\ NameOf(content, names) \in {"none", "plain", "rejected"}

ReferencesAreLinked ==
  task.is = "message" /\ Simple(task.parts, task.names) =>
    LET rejected == \E i \in DOMAIN task.parts : \E content \in ContentOf(task.parts[i]) :
                      content.how = "readable" /\ NameOf(content, task.names) = "rejected"
    IN replaceNostrReferences(task.parts, task.names) =
         IF rejected THEN task.parts
         ELSE FlattenSeq([i \in DOMAIN task.parts |-> Linked(task.parts[i], task.names)])

=============================================================================
