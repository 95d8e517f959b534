------------------------------ MODULE DevParam ------------------------------
(***************************************************************************)
(* The type record (src/src/app_main.c): AT+TYPE stores the name under     *)
(* which the device is found, with a tag and a checksum; AT+TYPE and       *)
(* app_main read it.  hffile_userbin_write may store less than it was      *)
(* given (sdk/4.13/include/hsf/hffile.h:59), which nobody looks at, and    *)
(* power may fail at any moment.                                           *)
(***************************************************************************)
EXTENDS Naturals, Sequences, FiniteSets, SequencesExt

CONSTANTS
    Byte,       \* values of an unsigned char (256)
    Tag,        \* 0x5A
    Limit       \* longest text the reader takes, and the first length that
                \* AT+TYPE refuses (18)

ASSUME DevParamAssumption ==
    /\ Byte \in Nat \ {0, 1} /\ Tag \in 1..(Byte - 2)
    /\ Limit \in Nat \ {0}

Bytes    == 0..(Byte - 1)
Texts(n) == UNION {[1..l -> Bytes \ {0}] : l \in 0..n}
Size     == Limit + 3           \* sizeof(type): tag, crc, text, terminator
None     == <<0>>               \* the reader returned -1

VARIABLES
    flash,      \* the first Size bytes of the userbin file
    airlink     \* the type app_main started airlink with, or None

\* Auxiliary: the text of the last record whose checksum got into the file,
\* and whether all of that text did.
VARIABLES sealed, whole

vars == <<flash, airlink, sealed, whole>>

-----------------------------------------------------------------------------
\* Mutant: the checksum is kept in an int.
WideSum(text) == FoldSeq(+, 0, text)

Sum(text) == FoldSeq(+, 0, text) % Byte

\* strlen of the stored text.  Without a terminator in the record it is
\* longer than the record's text, by how much the stack decides.
Zeros(f)  == {i \in 3..Size : f[i] = 0}
Length(f) == IF Zeros(f) = {} THEN Limit + 1
             ELSE (CHOOSE i \in Zeros(f) : \A k \in Zeros(f) : i <= k) - 3
Text(f)   == SubSeq(f, 3, 2 + Length(f))

\* Mutant: a text one longer is taken.
ReadLonger(f) == IF f[1] = Tag /\ Length(f) <= Limit + 1 /\ f[2] = Sum(Text(f))
                 THEN Text(f) ELSE None

\* Mutant: the checksum is not compared.
ReadUnchecked(f) == IF f[1] = Tag /\ Length(f) <= Limit THEN Text(f) ELSE None

\* dev_param_read
Read(f) == IF f[1] = Tag /\ Length(f) <= Limit /\ f[2] = Sum(Text(f))
           THEN Text(f) ELSE None

\* Mutant: the terminator is not copied.
RecordUnended(text, stack) ==
    [i \in 1..Size |-> CASE i = 1 -> Tag
                         [] i = 2 -> Sum(text)
                         [] i \in 3..(2 + Len(text)) -> text[i - 2]
                         [] OTHER -> stack[i]]

\* What dev_param_write puts together; the bytes behind the terminator were
\* never assigned and are what the stack held.
RecordOf(text, stack) ==
    [i \in 1..Size |-> CASE i = 1 -> Tag
                         [] i = 2 -> Sum(text)
                         [] i \in 3..(2 + Len(text)) -> text[i - 2]
                         [] i = 3 + Len(text) -> 0
                         [] OTHER -> stack[i]]

-----------------------------------------------------------------------------
\* A new device: the file is zeroed, or erased.
Init ==
    /\ flash \in {[i \in 1..Size |-> b] : b \in {0, Byte - 1}}
    /\ airlink = None
    /\ sealed = <<>> /\ whole = FALSE

\* AT+TYPE=text, if it is not refused (-4): the first n bytes of the record
\* get into the file.
SetType(text, stack, n) ==
    /\ Len(text) < Limit
    /\ flash' = [i \in 1..Size |-> IF i <= n THEN RecordOf(text, stack)[i] ELSE flash[i]]
    /\ IF n >= 2 THEN sealed' = text /\ whole' = (n >= 3 + Len(text))
                 ELSE UNCHANGED <<sealed, whole>>
    /\ UNCHANGED airlink

\* app_main after a reset.
PowerOn ==
    /\ airlink' = Read(flash)
    /\ UNCHANGED <<flash, sealed, whole>>

Next == \/ \E text \in Texts(Limit), n \in 0..Size :
              \E stack \in [(Len(text) + 3)..Size -> Bytes] : SetType(text, stack, n)
        \/ PowerOn

Spec == Init /\ [][Next]_vars

-----------------------------------------------------------------------------
\* The checksum is a byte, and airlink gets a text of at most Limit bytes: it
\* fits the Size bytes it is copied into, also if the file held no terminator
\* (app_main.c:121-122, 132).
TypeOK ==
    /\ flash \in [1..Size -> Bytes]
    /\ airlink \in Texts(Limit) \cup {None}
    /\ sealed \in Texts(Limit) /\ whole \in BOOLEAN

\* A text that was stored is read, whatever the stack held behind it and
\* however long it is (app_main.c:142-153, 116-132).
StoredIsRead == whole => Read(flash) = sealed

\* Of the byte at place k of a text, 0 behind its end.
At(text, k) == IF k <= Len(text) THEN text[k] ELSE 0

\* What a short write left is taken for a type only if it is the text that
\* the checksum was made of, or differs from it in two bytes at least
\* (app_main.c:125-133).
MixIsNoticed ==
    Read(flash) \notin {None, sealed} =>
        Cardinality({k \in 1..Limit : At(Read(flash), k) # At(sealed, k)}) >= 2
=============================================================================
