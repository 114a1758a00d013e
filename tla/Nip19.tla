------------------------------- MODULE Nip19 --------------------------------
(***************************************************************************)
(* The Nostr references in a boost's message: decode, the bech32 text      *)
(* beneath it and parseReferences of webroot/script/nostr.bundle.js, and   *)
(* replaceNostrReferences of webroot/script/helipad.js, which puts a link  *)
(* in the place of each.  A message is a sequence of words and references; *)
(* a reference keeps the place of its letters in the alphabet.             *)
(***************************************************************************)
EXTENDS Integers, Sequences, SequencesExt, Bitwise

CONSTANTS
  KeyBytes,       \* bytes of a key or an event's id: 32
  KindBytes,      \* bytes of an event's kind: 4
  Bech32MaxSize   \* letters of a reference: 5000

ASSUME WidthsAssumption == {KeyBytes, KindBytes, Bech32MaxSize} \subseteq Nat \ {0}

(* In the place of a sequence: an error, and what never ends. *)
Failed  == <<-1>>
Endless == <<-2>>

(* The character codes of the prefixes that mentionRegex finds. *)
Prefixes19 ==
  [npub     |-> <<110, 112, 117, 98>>,
   note     |-> <<110, 111, 116, 101>>,
   naddr    |-> <<110, 97, 100, 100, 114>>,
   nevent   |-> <<110, 101, 118, 101, 110, 116>>,
   nprofile |-> <<110, 112, 114, 111, 102, 105, 108, 101>>]

----------------------------------------------------------------------------
(* Bits, from the highest, of a sequence of words of a width, and the      *)
(* words of another width that they make up, if nothing is left over.      *)
Bits(words, width) ==
  [i \in 1 .. Len(words) * width |->
     (words[((i - 1) \div width) + 1] \div (2 ^ (width - 1 - ((i - 1) % width)))) % 2]

Zeros(n) == [i \in 1 .. n |-> 0]

RECURSIVE Number(_)
Number(bits) == IF bits = <<>> THEN 0 ELSE 2 * Number(Front(bits)) + Last(bits)

Words(bits, width, count) ==
  [j \in 1 .. count |-> Number(SubSeq(bits, (j - 1) * width + 1, j * width))]

(* convertRadix2 from 5 bits to 8, without padding. *)
fromWords(words) ==
  LET bits  == Bits(words, 5)
      count == Len(bits) \div 8
      rest  == SubSeq(bits, count * 8 + 1, Len(bits))
  IN IF Len(rest) < 5 /\ (\A i \in DOMAIN rest : rest[i] = 0)
     THEN Words(bits, 8, count) ELSE Failed

(* convertRadix2 from 8 bits to 5, with padding. *)
toWords(data) ==
  LET bits == Bits(data, 8)
      pad  == (5 - (Len(bits) % 5)) % 5
  IN Words(bits \o Zeros(pad), 5, (Len(bits) + pad) \div 5)

POLYMOD_GENERATORS == <<996825010, 642813549, 513874426, 1027748829, 705979059>>

(* What the five bits shifted out bring back in. *)
Generated ==
  [b \in 0 .. 31 |->
     FoldLeft(LAMBDA chk, i : IF (b \div (2 ^ (i - 1))) % 2 = 1 THEN chk ^^ POLYMOD_GENERATORS[i] ELSE chk,
              0, <<1, 2, 3, 4, 5>>)]

bech32Polymod(pre) == ((pre % (2 ^ 25)) * 32) ^^ Generated[pre \div (2 ^ 25)]

RECURSIVE Checked(_, _)
Checked(chk, values) ==
  IF values = <<>> THEN Words(Bits(<<chk ^^ 1>>, 30), 5, 6)
  ELSE Checked(bech32Polymod(chk) ^^ Head(values), Tail(values))

(* Mutant of bechChecksum: the prefix is left out. *)
bechChecksumOfWords(prefix, words) == Checked(1, words \o Zeros(6))

bechChecksum(prefix, words) ==
  LET codes == Prefixes19[prefix]
  IN Checked(1, [i \in DOMAIN codes |-> codes[i] \div 32] \o <<0>>
                \o [i \in DOMAIN codes |-> codes[i] % 32] \o words \o Zeros(6))

(* The words of a text that is not too long; 32 stands for a letter        *)
(* outside the alphabet, and mixed for capitals after the prefix.          *)
bech32Decode(text) ==
  LET letters == text.letters
      n == Len(letters) - 6
  IN IF /\ ~text.mixed /\ n >= 0
        /\ Len(Prefixes19[text.prefix]) + 1 + Len(letters) <= Bech32MaxSize
        /\ \A i \in DOMAIN letters : letters[i] < 32
        /\ SubSeq(letters, n + 1, n + 6) = bechChecksum(text.prefix, SubSeq(letters, 1, n))
     THEN SubSeq(letters, 1, n) ELSE Failed

----------------------------------------------------------------------------
(* parseTLV: entries of a type, a length and that many bytes.  A single    *)
(* byte left at the end has no length, and is read for ever.               *)
parseTLV(data) ==
  LET parse[from \in 1 .. Len(data) + 1] ==
        IF from > Len(data) THEN <<>>
        ELSE IF from = Len(data) THEN <<Endless>>
        ELSE LET to == from + 1 + data[from + 1]
             IN IF to > Len(data) THEN <<Failed>>
                ELSE IF parse[to + 1] \in {<<Failed>>, <<Endless>>} THEN parse[to + 1]
                ELSE <<<<data[from]>> \o SubSeq(data, from + 2, to)>> \o parse[to + 1]
  IN parse[1]

(* The values of a type, and whether the first has the width it must have. *)
OfType(tlv, t) == LET found == SelectSeq(tlv, LAMBDA entry : entry[1] = t)
                  IN [i \in DOMAIN found |-> Tail(found[i])]
Has(tlv, t, width) == OfType(tlv, t) # <<>> /\ Len(OfType(tlv, t)[1]) = width
MayHave(tlv, t, width) == OfType(tlv, t) = <<>> \/ Has(tlv, t, width)

WellFormed(prefix, tlv) ==
  CASE prefix = "nprofile" -> Has(tlv, 0, KeyBytes)
    [] prefix = "nevent"   -> Has(tlv, 0, KeyBytes) /\ MayHave(tlv, 2, KeyBytes) /\ MayHave(tlv, 3, KindBytes)
    [] prefix = "naddr"    -> OfType(tlv, 0) # <<>> /\ Has(tlv, 2, KeyBytes) /\ Has(tlv, 3, KindBytes)

Decoded(type, key, relays) == [type |-> type, key |-> key, relays |-> relays]

(* The type is "failed" if decode throws, "endless" if it does not return. *)
decode(text) ==
  LET words == bech32Decode(text)
      data  == IF words = Failed THEN Failed ELSE fromWords(words)
      tlv   == parseTLV(data)
  IN IF data = Failed THEN Decoded("failed", <<>>, <<>>)
     ELSE IF text.prefix \in {"npub", "note"} THEN Decoded(text.prefix, data, <<>>)
     ELSE IF tlv = <<Endless>> THEN Decoded("endless", <<>>, <<>>)
     ELSE IF tlv = <<Failed>> \/ ~WellFormed(text.prefix, tlv) THEN Decoded("failed", <<>>, <<>>)
     ELSE Decoded(text.prefix, OfType(tlv, IF text.prefix = "naddr" THEN 2 ELSE 0)[1], OfType(tlv, 1))

----------------------------------------------------------------------------
(* Messages.  A part is a word, a reference, a tag that is written #[n],   *)
(* or what the page puts in.                                               *)

Part(is) == [is |-> is]

(* parseReferences goes through the message: a tag makes it throw, as the  *)
(* page hands it no tags, a reference may not let it end; otherwise it     *)
(* returns what decodes, in order.                                         *)
References(message) == SelectSeq(message, LAMBDA part : part.is = "reference")

parseReferences(message) ==
  LET Stops(part) == part.is = "tag" \/ (part.is = "reference" /\ decode(part).type = "endless")
      stop == SelectInSeq(message, Stops)
  IN [how  |-> IF stop = 0 THEN "returns" ELSE IF message[stop].is = "tag" THEN "throws" ELSE "hangs",
      refs |-> SelectSeq(References(message), LAMBDA part : decode(part).type # "failed")]

(* What resolveNostrName comes to, given that of each key: none for what   *)
(* is no profile; a name, which may hold a pattern of String.replace; or a *)
(* rejection, if the profile's content is no JSON or the names do not fit  *)
(* in localStorage.                                                        *)
NameForms == {"none", "plain", "$$", "$&", "$`", "$'", "rejected"}

resolveNostrName(ref, names) ==
  LET found == decode(ref)
  IN IF found.type \in {"npub", "nprofile"} THEN names[found.key] ELSE "none"

(* The text of the link.  In a name $$ loses a dollar, and $& (with its    *)
(* ampersand escaped), $` and $' bring in the reference's own text, what   *)
(* stands before it and what follows.                                      *)
Label(ref, names, before, after) ==
  LET form == resolveNostrName(ref, names)
      name == <<[is |-> "name", key |-> decode(ref).key]>>
  IN CASE form = "none"  -> <<ref>>
       [] form = "plain" -> name
       [] form = "$$"    -> <<[is |-> "shortened", key |-> decode(ref).key]>>
       [] form = "$&"    -> name \o <<ref, Part("amp;")>>
       [] form = "$`"    -> name \o before
       [] form = "$'"    -> name \o after

(* message.replace puts a link in the place of the text's first occurrence.*)
Replaced(message, ref, names) ==
  LET i == SelectInSeq(message, LAMBDA part : part = ref)
      before == SubSeq(message, 1, i - 1)
      after  == SubSeq(message, i + 1, Len(message))
  IN before \o <<Part("<a href"), ref, Part(">")>> \o Label(ref, names, before, after)
            \o <<Part("</a>")>> \o after

(* What the page shows in the end.  A name that is rejected, wherever it   *)
(* stands, rejects the whole, and the message stays as it is.              *)
Hung == <<Part("hung")>>

(* Mutant of replaceNostrReferences: a rejected name is passed over.       *)
replaceNostrReferencesKnown(message, names) ==
  LET parsed == parseReferences(message)
      known  == SelectSeq(parsed.refs, LAMBDA ref : resolveNostrName(ref, names) # "rejected")
  IN CASE parsed.how = "hangs"   -> Hung
       [] parsed.how = "throws"  -> message
       [] parsed.how = "returns" -> FoldLeft(LAMBDA text, ref : Replaced(text, ref, names), message, known)

replaceNostrReferences(message, names) ==
  LET parsed   == parseReferences(message)
      rejected == \E i \in DOMAIN parsed.refs : resolveNostrName(parsed.refs[i], names) = "rejected"
  IN IF parsed.how = "hangs" THEN Hung
     ELSE IF parsed.how = "throws" \/ rejected THEN message
     ELSE FoldLeft(LAMBDA text, ref : Replaced(text, ref, names), message, parsed.refs)
=============================================================================
