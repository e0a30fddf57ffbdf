----------------------------- MODULE NormalSync -----------------------------
(***************************************************************************)
(* What synchronization promises: the wallet is always at some block, and  *)
(* holds the notes received and the nullifiers revealed on the chain of    *)
(* that block.  It moves by applying the blocks of a path in chain order,  *)
(* one or several at a time, and never leaves the chain it is on.  This is *)
(* the "normal sync" of docs/index.md that warp sync must agree with.      *)
(***************************************************************************)
EXTENDS Ledger

VARIABLES
  at,        \* the block the wallet has synced to
  received,  \* the notes received, as nullifiers
  spent      \* the notes of the wallet that are spent

vars == <<at, received, spent>>

Init == at = Genesis /\ received = {} /\ spent = {}

NotesOf(b) == {<<o, Position(o, b)>> : o \in Received(b)}
NfsOf(b) == {Spends[b][i].nf : i \in 1..Len(Spends[b])}

Apply(to) ==
  /\ at \in Anc[to] /\ to # at
  /\ at' = to
  /\ received' = received \cup UNION {NotesOf(b) : b \in Path(at, to)}
  /\ spent' = spent \cup (received' \cap UNION {NfsOf(b) : b \in Path(at, to)})

Next == \E to \in Block : Apply(to)

Spec == Init /\ [][Next]_vars
=============================================================================
