------------------------------ MODULE Fountain ------------------------------
(***************************************************************************)
(* The fountain code that carries data through QR codes.  split_data makes *)
(* drops of a payload, each with the id the caller gave, the length and a  *)
(* checksum; merge_data puts one drop at a time into the one decoder that  *)
(* all callers share, and returns the payload when it has enough of them.  *)
(* The camera sees the drops in any order, some never and some again, and  *)
(* may be turned to another payload at any time.                           *)
(***************************************************************************)
EXTENDS Integers, FiniteSets, Sequences, SequencesExt

CONSTANTS
    DropPayload,    \* payloads, each with the id of its split
    IdOf,
    DropNumbers,    \* drops of a payload
    Needed,         \* how many different ones the code needs to give it back
    MaxPuts         \* bound: drops put

ASSUME FountainAssumption == Needed \in Nat

VARIABLES
    decoder,        \* the shared one: its id, the drops it has, if there is one
    puts,           \* the drops put so far, in order
    returned        \* what each of them returned

fountainVars == <<decoder, puts, returned>>

Nothing == "nothing"
Garbage == "garbage"

Drops == [of : DropPayload, n : DropNumbers]

FountainInit == decoder = [id |-> 0, made |-> FALSE, has |-> {}] /\ puts = <<>> /\ returned = <<>>

----------------------------------------------------------------------------

\* The RaptorQ decoder: drops of one payload give it back; if they are of
\* several, which the id does not tell, anything may come out.
Decodes(has) ==
    IF Cardinality(has) < Needed THEN {Nothing}
    ELSE IF \E p \in DropPayload : \A d \in has : d.of = p
         THEN {(CHOOSE d \in has : TRUE).of}
         ELSE {Nothing, Garbage} \cup DropPayload

\* A mutant: a new id keeps the drops of the old decoder.
TurnedToKeeping(id) ==
    IF decoder.id = id THEN decoder ELSE [decoder EXCEPT !.id = id, !.made = TRUE]

\* Another id than the last one starts a new decoder.
TurnedTo(id) ==
    IF decoder.id = id THEN decoder ELSE [id |-> id, made |-> TRUE, has |-> {}]

\* A drop that is not base64, too short or of a wrong checksum changes nothing.
PutDrop(d) ==
    LET turned == TurnedTo(IdOf[d.of]) IN
    /\ Len(puts) < MaxPuts
    /\ puts' = Append(puts, d)
    /\ IF ~turned.made
       THEN decoder' = turned /\ returned' = Append(returned, Nothing)
       ELSE \E res \in Decodes(turned.has \cup {d}) :
              /\ returned' = Append(returned, res)
              /\ decoder' = IF res # Nothing THEN [id |-> 0, made |-> FALSE, has |-> {}]
                            ELSE [turned EXCEPT !.has = @ \cup {d}]

FountainNext == \E d \in Drops : PutDrop(d)

FountainSpec == FountainInit /\ [][FountainNext]_fountainVars

----------------------------------------------------------------------------
(* Properties.                                                             *)

\* Drops put in a row since the last answer or the last drop of another id.
Row(k) ==
    LET Broken(j) == returned[j] # Nothing \/ IdOf[puts[j].of] # IdOf[puts[k].of]
        start == CHOOSE i \in 1 .. k : /\ \A j \in i .. k - 1 : ~Broken(j)
                                       /\ i = 1 \/ Broken(i - 1)
    IN  {puts[j] : j \in start .. k}

\* When payloads have ids of their own, and not 0, what comes out is the payload
\* that went in, as soon as enough different drops of it have come in a row and
\* not before; drops of another one in between start it again, they never mix
\* (fountain.rs:64-80).
MergeReturnsPayload ==
    \A k \in DOMAIN puts :
        LET p == puts[k].of IN
        (IdOf[p] # 0 /\ \A q \in DropPayload \ {p} : IdOf[q] # IdOf[p]) =>
            returned[k] = IF Cardinality(Row(k)) >= Needed THEN p ELSE Nothing
=============================================================================
