--------------------------- MODULE HardwareSigner ---------------------------
(***************************************************************************)
(* A transaction built and proved by the host and signed by a hardware     *)
(* device.  The host describes the transaction (0xA0), asks for the        *)
(* randomness of each spend (0xA1) and output (0xA2), sends the data that  *)
(* is hashed (0xA3), and collects a signature for each spend (0xA4).       *)
(* It ignores the code of every answer: a refusal shows only as an answer  *)
(* without data where data is read, and there the host panics.             *)
(*                                                                         *)
(* The device is external.  It is taken to keep the order of the commands  *)
(* and the counts of the description, and to compare nothing else.         *)
(***************************************************************************)
EXTENDS Integers, Sequences, SequencesExt

CONSTANTS
    HwPlans,        \* plans: [inputs, outputs, change], amounts and [to, amount]
    HwFee,
    PerChunk,       \* items in a chunk: 250 bytes in the code
    CountModulus,   \* counts are written in a byte: 256 in the code
    MaxHwCalls      \* bound: calls made

ASSUME HwAssumption ==
    /\ PerChunk \in Nat \ {0} /\ CountModulus \in Nat \ {0}
    /\ \A tx \in HwPlans :
         tx \in [inputs : Seq(Nat), outputs : Seq(ToSet(tx.outputs)), change : {tx.change}]

VARIABLES
    hwTx,           \* the plan in the hands of the caller, which a call changes
    host,           \* the call: what it is at, and what it has built
    device,
    raw,            \* transactions returned
    hwCalls

hwVars == <<hwTx, host, device, raw, hwCalls>>

NoCall == [pc |-> "idle"]
Asleep == [phase |-> "idle", buffer |-> <<>>, spends |-> 0, outs |-> 0, sigs |-> 0, hashed |-> <<>>]
Sum(s) == FoldSeq(LAMBDA x, y : x + y, 0, s)
Amounts(outputs) == [n \in DOMAIN outputs |-> outputs[n].amount]

HwInit ==
    /\ hwTx \in HwPlans /\ host = NoCall /\ device = Asleep
    /\ raw = {} /\ hwCalls = 0

----------------------------------------------------------------------------
(* The description.                                                        *)

Change(tx) == Sum(tx.inputs) - Sum(Amounts(tx.outputs)) - HwFee

WithChange(tx) ==
    [tx EXCEPT !.outputs = Append(@, [to |-> tx.change, amount |-> Change(tx)])]

\* A mutant: the change is described before the outputs, and built after them.
ChangeDescribedFirst(tx) ==
    <<[ins |-> Len(tx.inputs) % CountModulus, outs |-> (Len(tx.outputs) + 1) % CountModulus]>>
    \o tx.inputs \o <<Last(WithChange(tx).outputs)>> \o tx.outputs

\* The counts, the inputs and the outputs, the change last.
Description(tx) ==
    <<[ins |-> Len(tx.inputs) % CountModulus, outs |-> (Len(tx.outputs) + 1) % CountModulus]>>
    \o tx.inputs \o WithChange(tx).outputs

\* An empty chunk first, and a mark on the last one.
Chunks(buffer) ==
    LET count == (Len(buffer) + PerChunk - 1) \div PerChunk
    IN  [k \in 1 .. count + 1 |->
            [p1 |-> IF k = 1 THEN 0 ELSE IF k = count + 1 THEN 2 ELSE 1,
             data |-> IF k = 1 THEN <<>>
                      ELSE SubSeq(buffer, (k - 2) * PerChunk + 1,
                                  IF k = count + 1 THEN Len(buffer) ELSE (k - 1) * PerChunk)]]

\* Ends at the asserts: transparent outputs and a negative change are refused.
BuildTxLedger ==
    /\ host = NoCall /\ hwCalls < MaxHwCalls /\ hwCalls' = hwCalls + 1
    /\ Change(hwTx) >= 0
    /\ hwTx' = WithChange(hwTx)
    /\ host' = [pc |-> "describe", chunks |-> Chunks(Description(hwTx)),
                spends |-> <<>>, outs |-> <<>>, sigs |-> <<>>]
    /\ UNCHANGED <<device, raw>>

----------------------------------------------------------------------------
(* The device.                                                             *)

Shown == device.buffer
Header == Shown[1]
WellFormed(buffer) == buffer # <<>> /\ Len(buffer) = 1 + buffer[1].ins + buffer[1].outs

\* A chunk, and what the user says of the last one.  A new description makes
\* the device forget the one before.
Described(chunk, approved) ==
    CASE chunk.p1 = 0 -> [Asleep EXCEPT !.phase = "describing"]
      [] chunk.p1 # 0 /\ device.phase # "describing" -> device
      [] chunk.p1 = 1 /\ device.phase = "describing" ->
           [device EXCEPT !.buffer = @ \o chunk.data]
      [] OTHER ->
           LET buffer == device.buffer \o chunk.data
           IN  IF approved /\ WellFormed(buffer)
               THEN [device EXCEPT !.buffer = buffer, !.phase = "approved"] ELSE Asleep

----------------------------------------------------------------------------
(* The requests of the host, one at a time; each waits for its answer.     *)

SendChunk(approved) ==
    /\ host.pc = "describe" /\ host.chunks # <<>>
    /\ device' = Described(Head(host.chunks), approved)
    /\ host' = IF Len(host.chunks) = 1
               THEN [host EXCEPT !.chunks = <<>>, !.pc = "spends"]
               ELSE [host EXCEPT !.chunks = Tail(@)]
    /\ UNCHANGED <<hwTx, raw, hwCalls>>

\* get_spend_proof: what a proof shows of its input; hiding it is the library's.
SpendData(n) == hwTx.inputs[n]

\* The randomness of the next input, and its proof.
AskSpend ==
    LET n == Len(host.spends) + 1 IN
    /\ host.pc = "spends"
    /\ IF n > Len(hwTx.inputs)
       THEN host' = [host EXCEPT !.pc = "outputs"] /\ device' = device
       ELSE /\ device.phase = "approved" /\ device.spends < Header.ins
            /\ device' = [device EXCEPT !.spends = @ + 1]
            /\ host' = [host EXCEPT !.spends = Append(@, SpendData(n))]
    /\ UNCHANGED <<hwTx, raw, hwCalls>>

\* get_output_description; the memo of the plan is not in it.
OutputData(n) == hwTx.outputs[n]

\* get_hash_data: everything that the signatures cover, in order.
HashData == host.spends \o host.outs

\* The randomness of the next output, and its proof; the change is one of them.
AskOutput ==
    LET n == Len(host.outs) + 1 IN
    /\ host.pc = "outputs"
    /\ IF n > Len(hwTx.outputs)
       THEN /\ host' = [host EXCEPT !.pc = "hash", !.chunks = Chunks(HashData)]
            /\ device' = device
       ELSE /\ device.phase = "approved" /\ device.outs < Header.outs
            /\ device' = [device EXCEPT !.outs = @ + 1]
            /\ host' = [host EXCEPT !.outs = Append(@, OutputData(n))]
    /\ UNCHANGED <<hwTx, raw, hwCalls>>

\* Only the answer to the last chunk is read.
SendHashData ==
    /\ host.pc = "hash" /\ host.chunks # <<>>
    /\ device.phase = "approved" /\ device.spends = Header.ins /\ device.outs = Header.outs
    /\ device' = [device EXCEPT !.hashed = @ \o Head(host.chunks).data,
                                !.phase = IF Head(host.chunks).p1 = 2 THEN "signing" ELSE @]
    /\ host' = IF Head(host.chunks).p1 = 2 THEN [host EXCEPT !.pc = "sign", !.chunks = <<>>]
               ELSE [host EXCEPT !.chunks = Tail(@)]
    /\ UNCHANGED <<hwTx, raw, hwCalls>>

AskSignature ==
    /\ host.pc = "sign" /\ Len(host.sigs) < Len(host.spends)
    /\ device.phase = "signing" /\ device.sigs < Header.ins
    /\ device' = [device EXCEPT !.sigs = @ + 1]
    /\ host' = [host EXCEPT !.sigs = Append(@, [of |-> device.sigs + 1, hash |-> device.hashed])]
    /\ UNCHANGED <<hwTx, raw, hwCalls>>

\* get_tx_data, which writes the counts in a byte again.
TxData ==
    [ins |-> Len(host.spends) % CountModulus, spends |-> host.spends,
     outs |-> Len(host.outs) % CountModulus, outputs |-> host.outs,
     sigs |-> host.sigs, shown |-> Shown]

\* The binding signature balances spends, outputs and fee.
Assemble ==
    /\ host.pc = "sign" /\ Len(host.sigs) = Len(host.spends)
    /\ Sum(host.spends) = Sum(Amounts(host.outs)) + HwFee
    /\ raw' = raw \cup {TxData}
    /\ host' = NoCall
    /\ UNCHANGED <<hwTx, device, hwCalls>>

\* The prover refuses to make the binding signature; the caller has its plan
\* back, with the change that the call has pushed, and may try again.
BindingFails ==
    /\ host.pc = "sign" /\ Len(host.sigs) = Len(host.spends)
    /\ host' = NoCall
    /\ UNCHANGED <<hwTx, device, raw, hwCalls>>

\* A panic, of the code or for a lost connection: the plan is read again.
HostPanics ==
    /\ host # NoCall
    /\ host' = NoCall /\ hwTx' \in HwPlans
    /\ UNCHANGED <<device, raw, hwCalls>>

HwNext ==
    \/ BuildTxLedger
    \/ \E approved \in BOOLEAN : SendChunk(approved)
    \/ AskSpend \/ AskOutput \/ SendHashData \/ AskSignature \/ Assemble
    \/ BindingFails \/ HostPanics

HwSpec == HwInit /\ [][HwNext]_hwVars

----------------------------------------------------------------------------
(* Properties.                                                             *)

\* What is returned is what the user has approved on the device: the same
\* spends and outputs in the same order, balanced with the fee, a signature of
\* it for every spend (sapling.rs:167-395), and with counts that a reader
\* takes for the right ones: a count that does not fit its byte
\* (sapling.rs:176-177, 643, 655) never comes this far, because the device refuses
\* the description.  A second call with the same plan adds a second change.
SignedIsShown ==
    \A tx \in raw :
        /\ tx.shown = <<[ins |-> tx.ins, outs |-> tx.outs]>> \o tx.spends \o tx.outputs
        /\ tx.ins = Len(tx.spends) /\ tx.outs = Len(tx.outputs)
        /\ \A n \in DOMAIN tx.spends :
             tx.sigs[n] = [of |-> n, hash |-> tx.spends \o tx.outputs]
=============================================================================
