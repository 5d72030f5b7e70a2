------------------------------ MODULE Masking ------------------------------
(***************************************************************************)
(* The masking of secrets in the output of a step (logstream/replacer.go): *)
(* what NewReplacer looks for and what its Write puts in its place.  Text  *)
(* is a sequence of bytes, a byte is a natural number; the mask, fourteen  *)
(* asterisks in the code, is one byte of its own, which no secret holds.   *)
(***************************************************************************)
EXTENDS Integers, SequencesExt

NewLine == 10
Space   == 32
Masked  == 0

TrimSpace(text) ==
    LET inked == {i \in DOMAIN text : text[i] # Space}
    IN  IF inked = {} THEN <<>> ELSE SubSeq(text, Min(inked), Max(inked))

\* Mutant: a secret of several lines is looked for as a whole.
WholeParts(secrets) == SelectSeq(secrets, LAMBDA part : Len(part) >= 2)

\* The line of a secret that ends before place i, if one does, trimmed; none of a single byte.
PartTo(secret, i) ==
    LET starts == {j \in 1..i : j = 1 \/ secret[j - 1] = NewLine}
        part   == TrimSpace(SubSeq(secret, Max(starts), i - 1))
    IN  IF (i > Len(secret) \/ secret[i] = NewLine) /\ Len(part) >= 2 THEN <<part>> ELSE <<>>

PartsOf(secret) == FlattenSeq([i \in 1..(Len(secret) + 1) |-> PartTo(secret, i)])

\* The parts of all secrets, in the order they are handed to strings.NewReplacer.
Parts(secrets) == FlattenSeq([i \in DOMAIN secrets |-> PartsOf(secrets[i])])

OccursAt(part, text, i) == SubSeq(text, i, i + Len(part) - 1) = part

(* Replace goes through the text once, from left to right; of the parts     *)
(* found at a place the first in argument order is masked.                  *)
Replace(text, parts) ==
    LET from[i \in 1..(Len(text) + 1)] ==
            LET found == {k \in DOMAIN parts :
                             i + Len(parts[k]) - 1 <= Len(text) /\ OccursAt(parts[k], text, i)}
            IN  IF i > Len(text) THEN <<>>
                ELSE IF found = {} THEN <<text[i]>> \o from[i + 1]
                ELSE <<Masked>> \o from[i + Len(parts[Min(found)])]
    IN  from[1]

\* Write returns the length of what it was given, whatever it wrote.
WriteReturn(text, parts) == Len(text)

\* A part of a secret can be read in the text.
Shows(text, parts) ==
    \E k \in DOMAIN parts, i \in DOMAIN text :
        i + Len(parts[k]) - 1 <= Len(text) /\ OccursAt(parts[k], text, i)
=============================================================================
