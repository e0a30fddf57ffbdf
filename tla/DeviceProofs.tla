---------------------------- MODULE DeviceProofs ----------------------------
(***************************************************************************)
(* Proofs about what comes in pieces and in any order: the signatures of   *)
(* the hardware signer, the drops of a fountain code, and the transactions *)
(* that sync asks the server for after a batch.                            *)
(***************************************************************************)
EXTENDS HardwareSigner, Fountain, TxDetails, SequenceTheorems, FiniteSetTheorems, TLAPS

-----------------------------------------------------------------------------
(* The hardware signer.                                                    *)

IsList(s) == \E S : s \in Seq(S)

(* What a description or hash data has become after the first k - 1 of its *)
(* chunks.                                                                 *)
ChunkCount(buffer) == (Len(buffer) + PerChunk - 1) \div PerChunk
Joined(buffer, k) ==
  IF k = 1 THEN <<>>
  ELSE IF k > ChunkCount(buffer) + 1 THEN buffer
  ELSE SubSeq(buffer, 1, (k - 2) * PerChunk)

(* The bounds of the chunks, from those of the division.                   *)
LEMMA ChunkBounds ==
  ASSUME NEW P \in Nat \ {0}, NEW L \in Nat \ {0}, NEW c \in Int, c = (L + P - 1) \div P
  PROVE  /\ c >= 1
         /\ \A k \in 2 .. c + 1 : (k - 2) * P \in 0 .. L
         /\ \A k \in 2 .. c + 1 : (k - 1) * P = (k - 2) * P + P
<1>1. P * c <= L + P - 1 /\ L + P - 1 < P * c + P
  OBVIOUS
<1>2. c >= 1
  <2>1. CASE c <= 0
    <3>1. P * c <= 0
      BY <2>1
    <3> QED BY <1>1, <3>1
  <2> QED BY <2>1
<1>3. ASSUME NEW k \in 2 .. c + 1
      PROVE  (k - 2) * P \in 0 .. L /\ (k - 1) * P = (k - 2) * P + P
  <2>1. (k - 1) * P = (k - 2) * P + P
    OBVIOUS
  <2>2. (k - 2) * P >= 0 /\ (k - 2) * P \in Int
    OBVIOUS
  <2>3. (k - 1) * P <= c * P
    <3>1. k - 1 <= c /\ P > 0
      OBVIOUS
    <3> QED BY <3>1
  <2>4. c * P = P * c
    OBVIOUS
  <2> QED BY <1>1, <2>1, <2>2, <2>3, <2>4
<1> QED BY <1>2, <1>3

(* The first chunk is empty, and every other one joins what is there.      *)
LEMMA ChunksJoin ==
  ASSUME HwAssumption, NEW S, NEW buffer \in Seq(S), buffer # <<>>
  PROVE  LET c == ChunkCount(buffer)
         IN  /\ c \in Nat /\ c >= 1
             /\ Chunks(buffer) \in Seq(ToSet(Chunks(buffer))) /\ Len(Chunks(buffer)) = c + 1
             /\ \A k \in 1 .. c + 1 :
                  /\ Chunks(buffer)[k].p1 = IF k = 1 THEN 0 ELSE IF k = c + 1 THEN 2 ELSE 1
                  /\ Joined(buffer, k) \o Chunks(buffer)[k].data = Joined(buffer, k + 1)
             /\ Joined(buffer, 1) = <<>> /\ Joined(buffer, 2) = <<>> /\ Joined(buffer, c + 2) = buffer
<1> DEFINE L == Len(buffer)
           c == ChunkCount(buffer)
           P == PerChunk
<1>1. P \in Nat \ {0} /\ L \in Nat \ {0}
  BY EmptySeq, LenProperties DEF HwAssumption
<1>2. c \in Int /\ c = (L + P - 1) \div P
  BY <1>1 DEF ChunkCount
<1> HIDE DEF L, c, P
<1>3. /\ c >= 1
      /\ \A k \in 2 .. c + 1 : (k - 2) * P \in 0 .. L
      /\ \A k \in 2 .. c + 1 : (k - 1) * P = (k - 2) * P + P
  BY <1>1, <1>2, ChunkBounds
<1>4. Chunks(buffer) =
        [k \in 1 .. c + 1 |->
            [p1 |-> IF k = 1 THEN 0 ELSE IF k = c + 1 THEN 2 ELSE 1,
             data |-> IF k = 1 THEN <<>>
                      ELSE SubSeq(buffer, (k - 2) * P + 1,
                                  IF k = c + 1 THEN L ELSE (k - 1) * P)]]
  BY DEF Chunks, ChunkCount, c, P, L
<1> DEFINE e(k) == [p1 |-> IF k = 1 THEN 0 ELSE IF k = c + 1 THEN 2 ELSE 1,
                    data |-> IF k = 1 THEN <<>>
                             ELSE SubSeq(buffer, (k - 2) * P + 1,
                                         IF k = c + 1 THEN L ELSE (k - 1) * P)]
           s == Chunks(buffer)
<1>5. s = [k \in 1 .. c + 1 |-> e(k)]
  BY <1>4
<1> HIDE DEF e, s
<1>6. s \in Seq(ToSet(s)) /\ Len(s) = c + 1 /\ \A k \in 1 .. c + 1 : s[k] = e(k)
  <2>1. c + 1 \in Nat /\ DOMAIN s = 1 .. c + 1 /\ \A k \in 1 .. c + 1 : s[k] = e(k)
    BY <1>2, <1>3, <1>5
  <2>2. \A k \in 1 .. c + 1 : e(k) \in ToSet(s)
    BY <2>1 DEF ToSet
  <2>3. s \in Seq(ToSet(s))
    BY <1>5, <2>1, <2>2, IsASeq
  <2>4. Len(s) = c + 1
    BY <2>1, <2>3, LenProperties
  <2> QED BY <2>1, <2>3, <2>4
<1>7. \A k : Joined(buffer, k) = IF k = 1 THEN <<>> ELSE IF k > c + 1 THEN buffer
                                 ELSE SubSeq(buffer, 1, (k - 2) * P)
  BY DEF Joined, c, P
<1>8. Joined(buffer, 1) = <<>> /\ Joined(buffer, 2) = <<>> /\ Joined(buffer, c + 2) = buffer
  <2>1. (2 - 2) * P = 0
    BY <1>1
  <2>2. SubSeq(buffer, 1, 0) = <<>>
    BY SubSeqEmpty
  <2>3. c + 2 # 1 /\ c + 2 > c + 1 /\ ~(2 > c + 1)
    BY <1>2, <1>3
  <2> QED BY <1>7, <2>1, <2>2, <2>3
<1>9. ASSUME NEW k \in 1 .. c + 1
      PROVE  Joined(buffer, k) \o e(k).data = Joined(buffer, k + 1)
  <2>1. CASE k = 1
    BY <1>8, <2>1 DEF e
  <2>2. CASE k # 1
    <3>1. PICK a \in 0 .. L : a = (k - 2) * P /\ Joined(buffer, k) = SubSeq(buffer, 1, a)
      BY <1>2, <1>3, <1>7, <2>2
    <3>2. PICK b \in a .. L : /\ e(k).data = SubSeq(buffer, a + 1, b)
                              /\ Joined(buffer, k + 1) = SubSeq(buffer, 1, b)
      <4>1. CASE k = c + 1
        <5>1. e(k).data = SubSeq(buffer, a + 1, L)
          BY <2>2, <3>1, <4>1 DEF e
        <5>2. Joined(buffer, k + 1) = SubSeq(buffer, 1, L)
          BY <1>2, <1>8, <4>1, SubSeqFull DEF L
        <5>3. L \in a .. L
          BY <1>1, <3>1
        <5> QED BY <5>1, <5>2, <5>3, Zenon
      <4>2. CASE k # c + 1
        <5>1. k + 1 \in 2 .. c + 1 /\ (k + 1) - 2 = k - 1
          BY <1>2, <4>2
        <5>2. (k - 1) * P \in 0 .. L /\ (k - 1) * P = a + P
          <6>1. k - 2 \in Nat /\ (k - 2) + 1 = k - 1 /\ P \in Nat
            BY <1>1, <2>2
          <6>2. \A i, j \in Nat : (i + 1) * j = i * j + j
            OBVIOUS
          <6>3. (k - 1) * P = a + P
            BY <3>1, <6>1, <6>2
          <6>4. (k - 1) * P \in 0 .. L
            BY <1>2, <1>3, <5>1
          <6> QED BY <6>3, <6>4
        <5>3. e(k).data = SubSeq(buffer, a + 1, (k - 1) * P)
          BY <2>2, <3>1, <4>2 DEF e
        <5>4. Joined(buffer, k + 1) = SubSeq(buffer, 1, (k - 1) * P)
          BY <1>2, <1>7, <5>1
        <5>5. (k - 1) * P \in a .. L
          BY <1>1, <3>1, <5>2
        <5> QED BY <5>3, <5>4, <5>5, Zenon
      <4> QED BY <4>1, <4>2
    <3>3. 1 \in 1 .. L + 1 /\ a \in 0 .. L /\ b \in a .. L
      BY <1>1
    <3>4. SubSeq(buffer, 1, a) \o SubSeq(buffer, a + 1, b) = SubSeq(buffer, 1, b)
      <4>1. 1 \in 1 .. Len(buffer) + 1 /\ a \in 1 - 1 .. Len(buffer) /\ b \in a .. Len(buffer)
        BY <3>3 DEF L
      <4> QED BY <4>1, ConcatAdjacentSubSeq
    <3> QED BY <3>1, <3>2, <3>4
  <2> QED BY <2>1, <2>2
<1>10. c \in Nat
  BY <1>2, <1>3
<1>11. \A k \in 1 .. c + 1 : e(k).p1 = IF k = 1 THEN 0 ELSE IF k = c + 1 THEN 2 ELSE 1
  BY DEF e
<1> QED BY <1>3, <1>6, <1>8, <1>9, <1>10, <1>11 DEF c, s

-----------------------------------------------------------------------------
PlanFits(tx) ==
  /\ tx = [inputs |-> tx.inputs, outputs |-> tx.outputs, change |-> tx.change]
  /\ IsList(tx.inputs) /\ IsList(tx.outputs)

(* What the device is told of a plan that has its change.                  *)
Told(tx) ==
  <<[ins |-> Len(tx.inputs) % CountModulus, outs |-> Len(tx.outputs) % CountModulus]>>
  \o tx.inputs \o tx.outputs
Taken(s, t) == \E m \in 0 .. Len(t) : s = SubSeq(t, 1, m)
Rest(s, k) == SubSeq(s, k, Len(s))

(* The user has approved the plan of the host, and its counts are right.   *)
Fits ==
  /\ device.buffer = Told(hwTx)
  /\ Header = [ins |-> Len(hwTx.inputs), outs |-> Len(hwTx.outputs)]

Calling ==
  /\ \/ host = NoCall
     \/ /\ host = [pc |-> host.pc, chunks |-> host.chunks, spends |-> host.spends,
                   outs |-> host.outs, sigs |-> host.sigs]
        /\ host.pc \in {"describe", "spends", "outputs", "hash", "sign"}
        /\ hwTx.outputs # <<>>
  /\ device = [phase |-> device.phase, buffer |-> device.buffer, spends |-> device.spends,
               outs |-> device.outs, sigs |-> device.sigs, hashed |-> device.hashed]

(* From its second chunk on, a description is in the device as far as the  *)
(* host has sent it.                                                       *)
Describing ==
  host.pc = "describe" =>
    /\ host.spends = <<>> /\ host.outs = <<>> /\ host.sigs = <<>>
    /\ \E k \in 1 .. ChunkCount(Told(hwTx)) + 1 :
         /\ host.chunks = Rest(Chunks(Told(hwTx)), k)
         /\ k > 1 => /\ device.phase = "describing" /\ device.buffer = Joined(Told(hwTx), k)
                     /\ device.hashed = <<>> /\ device.sigs = 0

(* The host goes through its plan in order, and so do the data to be       *)
(* signed; the device takes part only after the user has approved.         *)
Asking ==
  host.pc \in {"spends", "outputs", "hash"} =>
    /\ host.sigs = <<>>
    /\ device.phase = "approved" => Fits /\ device.sigs = 0
    /\ host.pc # "hash" => (device.phase = "approved" => device.hashed = <<>>)
    /\ host.pc = "spends" => Taken(host.spends, hwTx.inputs) /\ host.outs = <<>>
    /\ host.pc # "spends" => host.spends = hwTx.inputs
    /\ host.pc = "outputs" => Taken(host.outs, hwTx.outputs)
    /\ host.pc = "hash" =>
         /\ host.outs = hwTx.outputs
         /\ \E k \in 1 .. ChunkCount(HashData) + 1 :
              /\ host.chunks = Rest(Chunks(HashData), k)
              /\ device.phase = "approved" => device.hashed = Joined(HashData, k)

(* Each signature is of what the host has built and the user approved.     *)
Signing ==
  host.pc = "sign" =>
    /\ host.spends = hwTx.inputs /\ host.outs = hwTx.outputs /\ Fits
    /\ device.hashed = HashData
    /\ IsList(host.sigs) /\ device.sigs = Len(host.sigs)
    /\ \A n \in 1 .. Len(host.sigs) : host.sigs[n] = [of |-> n, hash |-> HashData]

HwInv == PlanFits(hwTx) /\ Calling /\ Describing /\ Asking /\ Signing /\ SignedIsShown

(* The rest of a sequence, and what is left of it after its head.          *)
LEMMA RestOf ==
  ASSUME NEW S, NEW s \in Seq(S), NEW k \in 1 .. Len(s)
  PROVE  /\ Rest(s, k) # <<>> /\ Head(Rest(s, k)) = s[k] /\ Tail(Rest(s, k)) = Rest(s, k + 1)
         /\ Len(Rest(s, k)) = 1 <=> k = Len(s)
<1>1. Len(s) \in Nat /\ \A i \in 1 .. Len(s) : s[i] \in S
  BY LenProperties, ElementOfSeq
<1>2. Head(Rest(s, k)) = s[k] /\ Tail(Rest(s, k)) = Rest(s, k + 1)
  <2>1. Len(s) \in k .. Len(s)
    BY <1>1
  <2> QED BY <2>1, HeadTailOfSubSeq DEF Rest
<1>3. Rest(s, k) \in Seq(S) /\ Len(Rest(s, k)) = Len(s) - k + 1
  <2>1. k \in Int /\ Len(s) \in Int /\ k <= Len(s) /\ \A i \in k .. Len(s) : s[i] \in S
    BY <1>1
  <2> QED BY <2>1, SubSeqProperties DEF Rest
<1> QED BY <1>1, <1>2, <1>3, EmptySeq

(* The next item of t extends what s has taken of it.                      *)
LEMMA TakeNext ==
  ASSUME NEW s, NEW t, IsList(t), Taken(s, t)
  PROVE  /\ Len(s) \in 0 .. Len(t)
         /\ Len(s) + 1 > Len(t) => s = t
         /\ Len(s) + 1 <= Len(t) => Taken(Append(s, t[Len(s) + 1]), t)
<1>1. PICK S : t \in Seq(S)
  BY DEF IsList
<1>2. PICK m \in 0 .. Len(t) : s = SubSeq(t, 1, m)
  BY DEF Taken
<1>3. Len(t) \in Nat /\ \A i \in 1 .. Len(t) : t[i] \in S
  BY <1>1, LenProperties, ElementOfSeq
<1>4. s \in Seq(S) /\ Len(s) = m
  <2>1. \A i \in 1 .. m : t[i] \in S
    BY <1>3
  <2>2. SubSeq(t, 1, m) \in Seq(S) /\ Len(SubSeq(t, 1, m)) = IF 1 <= m THEN m - 1 + 1 ELSE 0
    BY <1>3, <2>1, SubSeqProperties
  <2> QED BY <1>2, <1>3, <2>2
<1>5. CASE m = Len(t)
  <2>1. s = t
    BY <1>1, <1>2, <1>5, SubSeqFull
  <2> QED BY <1>3, <1>4, <1>5, <2>1
<1>6. CASE m # Len(t)
  <2>1. m + 1 \in 1 .. Len(t)
    BY <1>3, <1>6
  <2>2. SubSeq(t, 1, m + 1) = SubSeq(t, 1, m) \o <<t[m + 1]>>
    <3>1. 1 \in 1 .. Len(t) /\ m + 1 \in 1 .. Len(t) /\ (m + 1) - 1 = m
      BY <1>3, <2>1
    <3> QED BY <1>1, <3>1, SubSeqRecursiveSecond
  <2>3. Append(s, t[m + 1]) = s \o <<t[m + 1]>>
    BY <1>3, <1>4, <2>1, AppendIsConcat
  <2>4. Taken(Append(s, t[m + 1]), t)
    BY <1>2, <1>3, <2>1, <2>2, <2>3 DEF Taken
  <2> QED BY <1>3, <1>4, <1>6, <2>4
<1> QED BY <1>5, <1>6

(* What concatenation makes of two sequences.                              *)
LEMMA ConcatLists ==
  ASSUME NEW s, NEW t, IsList(s), IsList(t)
  PROVE  /\ IsList(s \o t) /\ Len(s) \in Nat /\ Len(t) \in Nat /\ Len(s \o t) = Len(s) + Len(t)
         /\ \A i \in 1 .. Len(s) : (s \o t)[i] = s[i]
         /\ t # <<>> => s \o t # <<>>
<1>1. PICK S, T : s \in Seq(S) /\ t \in Seq(T)
  BY DEF IsList
<1>2. s \in Seq(S \cup T) /\ t \in Seq(S \cup T)
  BY <1>1, SeqMonotonic
<1>3. s \o t \in Seq(S \cup T) /\ Len(s \o t) = Len(s) + Len(t)
      /\ \A i \in 1 .. Len(s) + Len(t) : (s \o t)[i] = IF i <= Len(s) THEN s[i] ELSE t[i - Len(s)]
  BY <1>2, ConcatProperties
<1>4. Len(s) \in Nat /\ Len(t) \in Nat /\ (t # <<>> => Len(t) # 0)
  BY <1>1, LenProperties, EmptySeq
<1>5. Len(<<>>) = 0
  BY EmptySeq
<1> QED BY <1>3, <1>4, <1>5 DEF IsList

(* A description begins with the counts.                                   *)
LEMMA ToldBegins ==
  ASSUME NEW tx, PlanFits(tx)
  PROVE  /\ IsList(Told(tx)) /\ Told(tx) # <<>>
         /\ Told(tx)[1] = [ins |-> Len(tx.inputs) % CountModulus,
                           outs |-> Len(tx.outputs) % CountModulus]
         /\ Len(tx.inputs) \in Nat /\ Len(tx.outputs) \in Nat
         /\ Len(Told(tx)) = 1 + Len(tx.inputs) + Len(tx.outputs)
<1> DEFINE h == [ins |-> Len(tx.inputs) % CountModulus, outs |-> Len(tx.outputs) % CountModulus]
<1> HIDE DEF h
<1>1. IsList(<<h>>) /\ Len(<<h>>) = 1 /\ <<h>>[1] = h
  <2>1. <<h>> \in Seq({h})
    OBVIOUS
  <2> QED BY <2>1 DEF IsList
<1>2. IsList(tx.inputs) /\ IsList(tx.outputs)
  BY DEF PlanFits
<1>3. /\ IsList(<<h>> \o tx.inputs) /\ Len(<<h>> \o tx.inputs) = 1 + Len(tx.inputs)
      /\ (<<h>> \o tx.inputs)[1] = h /\ Len(tx.inputs) \in Nat
  BY <1>1, <1>2, ConcatLists
<1> DEFINE s == <<h>> \o tx.inputs
           t == s \o tx.outputs
<1>4. 1 \in 1 .. Len(s)
  BY <1>3
<1> HIDE DEF s
<1>5. /\ IsList(t) /\ Len(t) = Len(s) + Len(tx.outputs) /\ t[1] = s[1] /\ Len(tx.outputs) \in Nat
  BY <1>2, <1>3, <1>4, ConcatLists DEF s
<1>6. Len(<<>>) = 0
  BY EmptySeq
<1>7. t # <<>>
  BY <1>3, <1>5, <1>6 DEF s
<1> QED BY <1>3, <1>5, <1>7 DEF Told, h, s

(* The description is that of the plan to which the host adds the change.  *)
LEMMA DescriptionIsTold ==
  ASSUME NEW tx, PlanFits(tx)
  PROVE  /\ PlanFits(WithChange(tx)) /\ WithChange(tx).outputs # <<>>
         /\ Description(tx) = Told(WithChange(tx))
<1> DEFINE c == [to |-> tx.change, amount |-> Change(tx)]
           w == WithChange(tx)
<1>1. w = [inputs |-> tx.inputs, outputs |-> Append(tx.outputs, c), change |-> tx.change]
  BY DEF PlanFits, WithChange
<1> HIDE DEF c, w
<1>2. PICK S : tx.outputs \in Seq(S)
  BY DEF PlanFits, IsList
<1>3. tx.outputs \in Seq(S \cup {c})
  BY <1>2, SeqMonotonic
<1>4. w.outputs \in Seq(S \cup {c}) /\ Len(w.outputs) = Len(tx.outputs) + 1
  BY <1>1, <1>3, AppendProperties
<1>5. Len(tx.outputs) \in Nat /\ Len(<<>>) = 0
  BY <1>2, LenProperties, EmptySeq
<1>6. PlanFits(w) /\ w.outputs # <<>>
  BY <1>1, <1>4, <1>5 DEF PlanFits, IsList
<1>7. w.inputs = tx.inputs
  BY <1>1
<1>8. Told(w) = <<[ins |-> Len(tx.inputs) % CountModulus,
                   outs |-> (Len(tx.outputs) + 1) % CountModulus]>> \o tx.inputs \o w.outputs
  BY <1>4, <1>7, Zenon DEF Told
<1>9. Description(tx) = <<[ins |-> Len(tx.inputs) % CountModulus,
                           outs |-> (Len(tx.outputs) + 1) % CountModulus]>> \o tx.inputs \o w.outputs
  BY Zenon DEF Description, w
<1> QED BY <1>6, <1>8, <1>9 DEF w

(* No call has begun.                                                      *)
LEMMA HwInvInit ==
  ASSUME HwAssumption, HwInit
  PROVE  HwInv
<1>1. host = NoCall /\ device = Asleep /\ raw = {} /\ hwTx \in HwPlans
  BY DEF HwInit
<1>2. PlanFits(hwTx)
  BY <1>1 DEF HwAssumption, PlanFits, IsList
<1>3. Calling
  BY <1>1 DEF Calling, Asleep
<1>4. host.pc = "idle"
  BY <1>1 DEF NoCall
<1> QED BY <1>1, <1>2, <1>3, <1>4 DEF HwInv, Describing, Asking, Signing, SignedIsShown

(* A call that has ended leaves a plan, and nothing else that matters.     *)
LEMMA Ended ==
  ASSUME HwInv, host' = NoCall, PlanFits(hwTx)', device' = device, SignedIsShown'
  PROVE  HwInv'
<1>1. host'.pc = "idle"
  BY DEF NoCall
<1>2. Calling'
  BY DEF HwInv, Calling
<1> QED BY <1>1, <1>2 DEF HwInv, Describing, Asking, Signing

(* A call begins: the host has the chunks of the description.              *)
LEMMA BuildKeeps ==
  ASSUME HwAssumption, HwInv, BuildTxLedger
  PROVE  HwInv'
<1> DEFINE D == Told(hwTx')
<1>1. /\ hwTx' = WithChange(hwTx) /\ device' = device /\ raw' = raw
      /\ host' = [pc |-> "describe", chunks |-> Chunks(Description(hwTx)),
                  spends |-> <<>>, outs |-> <<>>, sigs |-> <<>>]
  BY DEF BuildTxLedger
<1>2. PlanFits(hwTx') /\ hwTx'.outputs # <<>> /\ Description(hwTx) = D
  BY <1>1, DescriptionIsTold DEF HwInv
<1>3. PICK S : D \in Seq(S)
  BY <1>2, ToldBegins DEF IsList
<1>4. D # <<>>
  BY <1>2, ToldBegins
<1> HIDE DEF D
<1>5. /\ Chunks(D) \in Seq(ToSet(Chunks(D))) /\ Len(Chunks(D)) = ChunkCount(D) + 1
      /\ ChunkCount(D) \in Nat
  BY <1>3, <1>4, ChunksJoin
<1>6. Chunks(D) = Rest(Chunks(D), 1) /\ 1 \in 1 .. ChunkCount(D) + 1
  BY <1>5, SubSeqFull DEF Rest
<1>7. host'.pc = "describe" /\ host'.chunks = Chunks(D)
      /\ host'.spends = <<>> /\ host'.outs = <<>> /\ host'.sigs = <<>>
  BY <1>1, <1>2
<1>8. Describing'
  BY <1>6, <1>7 DEF Describing, D
<1>9. Calling'
  BY <1>1, <1>2 DEF HwInv, Calling
<1>10. SignedIsShown'
  BY <1>1 DEF HwInv, SignedIsShown
<1> QED BY <1>1, <1>2, <1>7, <1>8, <1>9, <1>10 DEF HwInv, Asking, Signing

(* The counts of an approved description fit their bytes.                  *)
LEMMA ApprovedFits ==
  ASSUME HwAssumption, NEW tx, PlanFits(tx), WellFormed(Told(tx))
  PROVE  Told(tx)[1] = [ins |-> Len(tx.inputs), outs |-> Len(tx.outputs)]
<1> DEFINE i == Len(tx.inputs)
           o == Len(tx.outputs)
           M == CountModulus
<1>1. Told(tx)[1] = [ins |-> i % M, outs |-> o % M] /\ i \in Nat /\ o \in Nat
      /\ Len(Told(tx)) = 1 + i + o
  BY ToldBegins
<1>2. M \in Nat \ {0}
  BY DEF HwAssumption
<1> HIDE DEF i, o, M
<1>3. 1 + i + o = 1 + (i % M) + (o % M)
  <2>1. Told(tx)[1].ins = i % M /\ Told(tx)[1].outs = o % M
    BY <1>1
  <2>2. Len(Told(tx)) = 1 + Told(tx)[1].ins + Told(tx)[1].outs
    BY DEF WellFormed
  <2> QED BY <1>1, <2>1, <2>2
<1>4. ASSUME NEW n \in Nat PROVE n % M <= n /\ n % M \in Nat
  BY <1>2
<1>5. i % M = i /\ o % M = o
  <2>1. /\ i % M <= i /\ i % M \in Nat
        /\ o % M <= o /\ o % M \in Nat
    BY <1>1, <1>4
  <2> QED BY <1>1, <1>3, <2>1
<1> QED BY <1>1, <1>5 DEF i, o

(* What the device makes of the first chunk, of the next and of the last.  *)
LEMMA DescribedChunk ==
  ASSUME NEW chunk, NEW approved, device.phase = "describing"
  PROVE  /\ chunk.p1 = 1 => Described(chunk, approved) = [device EXCEPT !.buffer = @ \o chunk.data]
         /\ chunk.p1 = 2 => Described(chunk, approved) =
              IF approved /\ WellFormed(device.buffer \o chunk.data)
              THEN [device EXCEPT !.buffer = device.buffer \o chunk.data, !.phase = "approved"]
              ELSE Asleep
<1>1. ASSUME chunk.p1 = 1
      PROVE  Described(chunk, approved) = [device EXCEPT !.buffer = @ \o chunk.data]
  BY <1>1 DEF Described
<1>2. ASSUME chunk.p1 = 2
      PROVE  Described(chunk, approved) =
               IF approved /\ WellFormed(device.buffer \o chunk.data)
               THEN [device EXCEPT !.buffer = device.buffer \o chunk.data, !.phase = "approved"]
               ELSE Asleep
  BY <1>2 DEF Described
<1> QED BY <1>1, <1>2

(* A chunk joins the description that the device has, and the last one is  *)
(* shown and approved or not.                                              *)
LEMMA SendChunkKeeps ==
  ASSUME HwAssumption, HwInv, NEW approved \in BOOLEAN, SendChunk(approved)
  PROVE  HwInv'
<1> DEFINE D == Told(hwTx)
           c == ChunkCount(D)
           s == Chunks(D)
<1>1. /\ host.pc = "describe" /\ host.chunks # <<>>
      /\ device' = Described(Head(host.chunks), approved)
      /\ hwTx' = hwTx /\ raw' = raw
  BY DEF SendChunk
<1>2. host = [pc |-> host.pc, chunks |-> host.chunks, spends |-> host.spends,
              outs |-> host.outs, sigs |-> host.sigs] /\ hwTx.outputs # <<>>
  BY <1>1 DEF HwInv, Calling, NoCall
<1>3. PlanFits(hwTx) /\ IsList(D) /\ D # <<>>
  BY ToldBegins DEF HwInv
<1>4. /\ c \in Nat /\ c >= 1 /\ s \in Seq(ToSet(s)) /\ Len(s) = c + 1
      /\ \A k \in 1 .. c + 1 :
           /\ s[k].p1 = IF k = 1 THEN 0 ELSE IF k = c + 1 THEN 2 ELSE 1
           /\ Joined(D, k) \o s[k].data = Joined(D, k + 1)
      /\ Joined(D, 2) = <<>> /\ Joined(D, c + 2) = D
  BY <1>3, ChunksJoin DEF IsList
<1>5. PICK k \in 1 .. c + 1 :
        /\ host.chunks = Rest(s, k)
        /\ k > 1 => /\ device.phase = "describing" /\ device.buffer = Joined(D, k)
                    /\ device.hashed = <<>> /\ device.sigs = 0
  BY <1>1 DEF HwInv, Describing
<1>6. host.spends = <<>> /\ host.outs = <<>> /\ host.sigs = <<>>
  BY <1>1 DEF HwInv, Describing
<1>7. device = [phase |-> device.phase, buffer |-> device.buffer, spends |-> device.spends,
                outs |-> device.outs, sigs |-> device.sigs, hashed |-> device.hashed]
  BY DEF HwInv, Calling
<1> HIDE DEF D, c, s
<1>8. /\ Head(host.chunks) = s[k] /\ Tail(host.chunks) = Rest(s, k + 1)
      /\ Len(host.chunks) = 1 <=> k = c + 1
  <2>1. s \in Seq(ToSet(s)) /\ k \in 1 .. Len(s) /\ Len(s) = c + 1
    BY <1>4
  <2>2. /\ Head(Rest(s, k)) = s[k] /\ Tail(Rest(s, k)) = Rest(s, k + 1)
        /\ Len(Rest(s, k)) = 1 <=> k = Len(s)
    BY <2>1, RestOf
  <2> QED BY <1>5, <2>1, <2>2
<1>9. SignedIsShown'
  BY <1>1 DEF HwInv, SignedIsShown
<1>10. device' = [phase |-> device'.phase, buffer |-> device'.buffer, spends |-> device'.spends,
                  outs |-> device'.outs, sigs |-> device'.sigs, hashed |-> device'.hashed]
  BY <1>1, <1>7 DEF Described, Asleep
<1>11. CASE k = c + 1
  <2>1. host' = [host EXCEPT !.chunks = <<>>, !.pc = "spends"]
    BY <1>8, <1>11 DEF SendChunk
  <2>2. /\ host'.pc = "spends" /\ host'.spends = <<>> /\ host'.outs = <<>> /\ host'.sigs = <<>>
        /\ host' = [pc |-> host'.pc, chunks |-> host'.chunks, spends |-> host'.spends,
                    outs |-> host'.outs, sigs |-> host'.sigs]
    BY <1>2, <1>6, <2>1
  <2>3. s[k].p1 = 2 /\ k > 1 /\ device.buffer \o s[k].data = D
    <3>1. k > 1 /\ k # 1 /\ k + 1 = c + 2
      BY <1>4, <1>11
    <3> QED BY <1>4, <1>5, <1>11, <3>1
  <2>4. device' = IF approved /\ WellFormed(D)
                  THEN [device EXCEPT !.buffer = D, !.phase = "approved"] ELSE Asleep
    <3>1. device.phase = "describing" /\ device' = Described(s[k], approved)
      BY <1>1, <1>5, <1>8, <2>3
    <3> DEFINE e == s[k]
    <3>2. e.p1 = 2 /\ device.buffer \o e.data = D /\ device' = Described(e, approved)
      BY <2>3, <3>1
    <3> HIDE DEF e
    <3>3. Described(e, approved) =
            IF approved /\ WellFormed(device.buffer \o e.data)
            THEN [device EXCEPT !.buffer = device.buffer \o e.data, !.phase = "approved"]
            ELSE Asleep
      BY <3>1, <3>2, DescribedChunk
    <3> QED BY <3>2, <3>3
  <2>5. device'.phase = "approved" =>
          WellFormed(D) /\ device'.buffer = D /\ device'.hashed = <<>> /\ device'.sigs = 0
    BY <1>5, <1>7, <2>3, <2>4 DEF Asleep
  <2>6. WellFormed(D) => D[1] = [ins |-> Len(hwTx.inputs), outs |-> Len(hwTx.outputs)]
    BY <1>3, ApprovedFits DEF D
  <2>7. device'.phase = "approved" => Fits' /\ device'.hashed = <<>> /\ device'.sigs = 0
    BY <1>1, <2>5, <2>6 DEF Fits, Header, Shown, D
  <2>8. Taken(host'.spends, hwTx'.inputs)
    <3>1. Len(hwTx.inputs) \in Nat
      BY <1>3, ToldBegins
    <3>2. SubSeq(hwTx.inputs, 1, 0) = <<>>
      BY SubSeqEmpty
    <3> QED BY <1>1, <2>2, <3>1, <3>2 DEF Taken
  <2>9. Asking'
    BY <2>2, <2>7, <2>8 DEF Asking
  <2>10. Calling'
    BY <1>1, <1>2, <1>10, <2>2 DEF Calling
  <2> QED BY <1>1, <1>3, <1>9, <2>2, <2>9, <2>10 DEF HwInv, Describing, Signing
<1>12. CASE k # c + 1
  <2>1. host' = [host EXCEPT !.chunks = Tail(@)]
    BY <1>8, <1>12 DEF SendChunk
  <2>2. /\ host'.pc = "describe" /\ host'.spends = <<>> /\ host'.outs = <<>> /\ host'.sigs = <<>>
        /\ host' = [pc |-> host'.pc, chunks |-> host'.chunks, spends |-> host'.spends,
                    outs |-> host'.outs, sigs |-> host'.sigs]
        /\ host'.chunks = Rest(s, k + 1)
    BY <1>1, <1>2, <1>6, <1>8, <2>1
  <2>3. k + 1 \in 1 .. c + 1 /\ k + 1 > 1
    BY <1>4, <1>12
  <2>4. /\ device'.phase = "describing" /\ device'.buffer = Joined(D, k + 1)
        /\ device'.hashed = <<>> /\ device'.sigs = 0
    <3>1. CASE k = 1
      <4>1. s[k].p1 = 0 /\ Joined(D, k + 1) = <<>>
        BY <1>4, <3>1
      <4>2. device' = [Asleep EXCEPT !.phase = "describing"]
        BY <1>1, <1>8, <4>1 DEF Described
      <4> QED BY <4>1, <4>2 DEF Asleep
    <3>2. CASE k # 1
      <4>1. s[k].p1 = 1 /\ k > 1 /\ Joined(D, k) \o s[k].data = Joined(D, k + 1)
        BY <1>4, <1>12, <3>2
      <4>2. device' = [device EXCEPT !.buffer = @ \o s[k].data]
        <5>1. device.phase = "describing" /\ device' = Described(s[k], approved)
          BY <1>1, <1>5, <1>8, <4>1
        <5> DEFINE e == s[k]
        <5>2. e.p1 = 1 /\ device' = Described(e, approved) /\ e.data = s[k].data
          BY <4>1, <5>1
        <5> HIDE DEF e
        <5>3. Described(e, approved) = [device EXCEPT !.buffer = @ \o e.data]
          BY <5>1, <5>2, DescribedChunk
        <5> QED BY <5>2, <5>3
      <4> QED BY <1>5, <1>7, <4>1, <4>2
    <3> QED BY <3>1, <3>2
  <2>5. Describing'
    <3>1. host'.chunks = Rest(Chunks(Told(hwTx')), k + 1) /\ k + 1 \in 1 .. ChunkCount(Told(hwTx')) + 1
          /\ device'.buffer = Joined(Told(hwTx'), k + 1)
      BY <1>1, <2>2, <2>3, <2>4 DEF D, c, s
    <3> QED BY <2>2, <2>4, <3>1 DEF Describing
  <2>6. Calling'
    BY <1>1, <1>2, <1>10, <2>2 DEF Calling
  <2> QED BY <1>1, <1>3, <1>9, <2>2, <2>5, <2>6 DEF HwInv, Asking, Signing
<1> QED BY <1>11, <1>12

(* What all requests after the description keep.                           *)
Shapes ==
  /\ host = [pc |-> host.pc, chunks |-> host.chunks, spends |-> host.spends,
             outs |-> host.outs, sigs |-> host.sigs]
  /\ device = [phase |-> device.phase, buffer |-> device.buffer, spends |-> device.spends,
               outs |-> device.outs, sigs |-> device.sigs, hashed |-> device.hashed]

(* A request leaves the plan and the transactions returned so far.         *)
LEMMA RequestKeeps ==
  ASSUME HwInv, host.pc # "idle", hwTx' = hwTx, raw' = raw, Shapes', host'.pc \in {"spends", "outputs", "hash", "sign"},
         Asking', Signing'
  PROVE  HwInv'
<1>1. hwTx.outputs # <<>>
  BY DEF HwInv, Calling, NoCall
<1>2. Calling' /\ Describing'
  BY <1>1 DEF Shapes, Calling, Describing
<1> QED BY <1>2 DEF HwInv, SignedIsShown

(* While a call runs, host and device have their fields.                   *)
LEMMA ShapesNow ==
  ASSUME HwInv, host.pc # "idle"
  PROVE  Shapes /\ PlanFits(hwTx) /\ hwTx.outputs # <<>>
BY DEF HwInv, Calling, NoCall, Shapes

(* The host takes the spends in the order in which they were shown.        *)
LEMMA AskSpendKeeps ==
  ASSUME HwInv, AskSpend
  PROVE  HwInv'
<1> DEFINE n == Len(host.spends) + 1
<1>1. host.pc = "spends" /\ hwTx' = hwTx /\ raw' = raw
  BY DEF AskSpend
<1>2. Shapes /\ PlanFits(hwTx)
  BY <1>1, ShapesNow
<1>3. /\ host.sigs = <<>> /\ host.outs = <<>> /\ Taken(host.spends, hwTx.inputs)
      /\ device.phase = "approved" => Fits /\ device.sigs = 0 /\ device.hashed = <<>>
  BY <1>1 DEF HwInv, Asking
<1>4. /\ n > Len(hwTx.inputs) => host.spends = hwTx.inputs
      /\ n <= Len(hwTx.inputs) => Taken(Append(host.spends, hwTx.inputs[n]), hwTx.inputs)
  BY <1>2, <1>3, TakeNext DEF PlanFits
<1>5. CASE n > Len(hwTx.inputs)
  <2>1. host' = [host EXCEPT !.pc = "outputs"] /\ device' = device
    BY <1>5 DEF AskSpend
  <2>2. host'.pc = "outputs" /\ host'.spends = hwTx.inputs /\ host'.outs = <<>> /\ host'.sigs = <<>>
        /\ Shapes'
    BY <1>2, <1>3, <1>4, <1>5, <2>1 DEF Shapes
  <2>3. Taken(<<>>, hwTx.outputs)
    <3>1. Len(hwTx.outputs) \in Nat
      BY <1>2, ToldBegins
    <3>2. SubSeq(hwTx.outputs, 1, 0) = <<>>
      BY SubSeqEmpty
    <3> QED BY <3>1, <3>2 DEF Taken
  <2>4. device'.phase = "approved" => Fits' /\ device'.sigs = 0 /\ device'.hashed = <<>>
    BY <1>1, <1>3, <2>1 DEF Fits, Header, Shown
  <2>5. Asking' /\ Signing'
    BY <1>1, <2>2, <2>3, <2>4 DEF Asking, Signing
  <2> QED BY <1>1, <2>2, <2>5, RequestKeeps
<1>6. CASE ~(n > Len(hwTx.inputs))
  <2>1. /\ device' = [device EXCEPT !.spends = @ + 1]
        /\ host' = [host EXCEPT !.spends = Append(@, hwTx.inputs[n])]
    BY <1>6 DEF AskSpend, SpendData
  <2>2. /\ host'.pc = "spends" /\ host'.outs = <<>> /\ host'.sigs = <<>> /\ Shapes'
        /\ host'.spends = Append(host.spends, hwTx.inputs[n])
    BY <1>1, <1>2, <1>3, <2>1 DEF Shapes
  <2>3. n <= Len(hwTx.inputs)
    <3>1. Len(hwTx.inputs) \in Nat /\ Len(host.spends) \in 0 .. Len(hwTx.inputs)
      BY <1>2, <1>3, ToldBegins, TakeNext DEF PlanFits
    <3> QED BY <1>6, <3>1
  <2>4. device'.phase = "approved" => Fits' /\ device'.sigs = 0 /\ device'.hashed = <<>>
    BY <1>1, <1>2, <1>3, <2>1 DEF Fits, Header, Shown, Shapes
  <2>5. Asking' /\ Signing'
    BY <1>1, <1>4, <2>2, <2>3, <2>4 DEF Asking, Signing
  <2> QED BY <1>1, <2>2, <2>5, RequestKeeps
<1> QED BY <1>5, <1>6

(* And then the outputs.                                                   *)
LEMMA AskOutputKeeps ==
  ASSUME HwAssumption, HwInv, AskOutput
  PROVE  HwInv'
<1> DEFINE n == Len(host.outs) + 1
<1>1. host.pc = "outputs" /\ hwTx' = hwTx /\ raw' = raw
  BY DEF AskOutput
<1>2. Shapes /\ PlanFits(hwTx) /\ hwTx.outputs # <<>>
  BY <1>1, ShapesNow
<1>3. /\ host.sigs = <<>> /\ host.spends = hwTx.inputs /\ Taken(host.outs, hwTx.outputs)
      /\ device.phase = "approved" => Fits /\ device.sigs = 0 /\ device.hashed = <<>>
  BY <1>1 DEF HwInv, Asking
<1>4. /\ n > Len(hwTx.outputs) => host.outs = hwTx.outputs
      /\ n <= Len(hwTx.outputs) => Taken(Append(host.outs, hwTx.outputs[n]), hwTx.outputs)
  BY <1>2, <1>3, TakeNext DEF PlanFits
<1>5. CASE n > Len(hwTx.outputs)
  <2>1. host' = [host EXCEPT !.pc = "hash", !.chunks = Chunks(HashData)] /\ device' = device
    BY <1>5 DEF AskOutput
  <2>2. /\ host'.pc = "hash" /\ host'.spends = hwTx.inputs /\ host'.outs = hwTx.outputs
        /\ host'.sigs = <<>> /\ host'.chunks = Chunks(HashData) /\ Shapes'
    BY <1>2, <1>3, <1>4, <1>5, <2>1 DEF Shapes
  <2>3. HashData' = HashData /\ HashData = hwTx.inputs \o hwTx.outputs
    BY <1>3, <1>4, <1>5, <2>2 DEF HashData
  <2> DEFINE H == hwTx.inputs \o hwTx.outputs
  <2>4. IsList(H) /\ H # <<>>
    BY <1>2, ConcatLists DEF PlanFits
  <2> HIDE DEF H
  <2>5. /\ Chunks(H) \in Seq(ToSet(Chunks(H))) /\ Len(Chunks(H)) = ChunkCount(H) + 1
        /\ ChunkCount(H) \in Nat /\ Joined(H, 1) = <<>>
    BY <2>4, ChunksJoin DEF IsList
  <2>6. Chunks(H) = Rest(Chunks(H), 1) /\ 1 \in 1 .. ChunkCount(H) + 1
    BY <2>5, SubSeqFull DEF Rest
  <2>7. device'.phase = "approved" => Fits' /\ device'.sigs = 0 /\ device'.hashed = <<>>
    BY <1>1, <1>3, <2>1 DEF Fits, Header, Shown
  <2>8. HashData = H /\ HashData' = H
    BY <2>3 DEF H
  <2>9. \E k \in 1 .. ChunkCount(HashData') + 1 :
          /\ host'.chunks = Rest(Chunks(HashData'), k)
          /\ device'.phase = "approved" => device'.hashed = Joined(HashData', k)
    BY <2>2, <2>5, <2>6, <2>7, <2>8
  <2>10. Asking' /\ Signing'
    BY <1>1, <2>2, <2>7, <2>9 DEF Asking, Signing
  <2> QED BY <1>1, <2>2, <2>10, RequestKeeps
<1>6. CASE ~(n > Len(hwTx.outputs))
  <2>1. /\ device' = [device EXCEPT !.outs = @ + 1]
        /\ host' = [host EXCEPT !.outs = Append(@, hwTx.outputs[n])]
    BY <1>6 DEF AskOutput, OutputData
  <2>2. /\ host'.pc = "outputs" /\ host'.spends = hwTx.inputs /\ host'.sigs = <<>> /\ Shapes'
        /\ host'.outs = Append(host.outs, hwTx.outputs[n])
    BY <1>1, <1>2, <1>3, <2>1 DEF Shapes
  <2>3. n <= Len(hwTx.outputs)
    <3>1. Len(hwTx.outputs) \in Nat /\ Len(host.outs) \in 0 .. Len(hwTx.outputs)
      BY <1>2, <1>3, ToldBegins, TakeNext DEF PlanFits
    <3> QED BY <1>6, <3>1
  <2>4. device'.phase = "approved" => Fits' /\ device'.sigs = 0 /\ device'.hashed = <<>>
    BY <1>1, <1>2, <1>3, <2>1 DEF Fits, Header, Shown, Shapes
  <2>5. Asking' /\ Signing'
    BY <1>1, <1>4, <2>2, <2>3, <2>4 DEF Asking, Signing
  <2> QED BY <1>1, <2>2, <2>5, RequestKeeps
<1> QED BY <1>5, <1>6

(* A chunk of the hash data joins what the device has hashed.              *)
LEMMA SendHashDataKeeps ==
  ASSUME HwAssumption, HwInv, SendHashData
  PROVE  HwInv'
<1> DEFINE H == hwTx.inputs \o hwTx.outputs
           c == ChunkCount(H)
           s == Chunks(H)
           e == Head(host.chunks)
<1>1. /\ host.pc = "hash" /\ hwTx' = hwTx /\ raw' = raw /\ device.phase = "approved"
      /\ device' = [device EXCEPT !.hashed = @ \o e.data, !.phase = IF e.p1 = 2 THEN "signing" ELSE @]
      /\ host' = IF e.p1 = 2 THEN [host EXCEPT !.pc = "sign", !.chunks = <<>>]
                 ELSE [host EXCEPT !.chunks = Tail(@)]
  BY DEF SendHashData
<1>2. Shapes /\ PlanFits(hwTx) /\ hwTx.outputs # <<>>
  BY <1>1, ShapesNow
<1>3. host.spends = hwTx.inputs /\ host.outs = hwTx.outputs /\ host.sigs = <<>>
      /\ Fits /\ device.sigs = 0
  BY <1>1 DEF HwInv, Asking
<1>4. HashData = H
  BY <1>3 DEF HashData
<1>5. PICK k \in 1 .. c + 1 : host.chunks = Rest(s, k) /\ device.hashed = Joined(H, k)
  BY <1>1, <1>4 DEF HwInv, Asking
<1>6. IsList(H) /\ H # <<>>
  BY <1>2, ConcatLists DEF PlanFits
<1> HIDE DEF H
<1>7. /\ c \in Nat /\ c >= 1 /\ s \in Seq(ToSet(s)) /\ Len(s) = c + 1
      /\ \A j \in 1 .. c + 1 :
           /\ s[j].p1 = IF j = 1 THEN 0 ELSE IF j = c + 1 THEN 2 ELSE 1
           /\ Joined(H, j) \o s[j].data = Joined(H, j + 1)
      /\ Joined(H, c + 2) = H
  BY <1>6, ChunksJoin DEF IsList
<1> HIDE DEF c, s
<1>8. e = s[k] /\ Tail(host.chunks) = Rest(s, k + 1)
  BY <1>5, <1>7, RestOf
<1> HIDE DEF e
<1>9. device'.hashed = Joined(H, k + 1) /\ device'.sigs = 0 /\ device'.buffer = device.buffer
  BY <1>1, <1>2, <1>3, <1>5, <1>7, <1>8 DEF Shapes
<1>10. Fits'
  BY <1>1, <1>3, <1>9 DEF Fits, Header, Shown
<1>11. CASE e.p1 = 2
  <2>1. /\ host'.pc = "sign" /\ host'.spends = hwTx.inputs /\ host'.outs = hwTx.outputs
        /\ host'.sigs = <<>> /\ Shapes'
    BY <1>1, <1>2, <1>3, <1>11 DEF Shapes
  <2>2. k = c + 1 /\ k + 1 = c + 2
    BY <1>7, <1>8, <1>11
  <2>3. HashData' = H /\ device'.hashed = H
    BY <1>1, <1>7, <1>9, <2>1, <2>2 DEF HashData, H
  <2>4. IsList(<<>>) /\ Len(<<>>) = 0
    BY EmptySeq DEF IsList
  <2>5. Asking'
    BY <2>1 DEF Asking
  <2>6. IsList(host'.sigs) /\ device'.sigs = Len(host'.sigs)
        /\ \A n \in 1 .. Len(host'.sigs) : host'.sigs[n] = [of |-> n, hash |-> HashData']
    BY <1>9, <2>1, <2>4
  <2>7. Signing'
    BY <1>1, <1>10, <2>1, <2>3, <2>6 DEF Signing
  <2> QED BY <1>1, <2>1, <2>5, <2>7, RequestKeeps
<1>12. CASE e.p1 # 2
  <2>1. /\ host'.pc = "hash" /\ host'.spends = hwTx.inputs /\ host'.outs = hwTx.outputs
        /\ host'.sigs = <<>> /\ Shapes' /\ host'.chunks = Rest(s, k + 1)
    BY <1>1, <1>2, <1>3, <1>8, <1>12 DEF Shapes
  <2>2. k + 1 \in 1 .. c + 1
    <3>1. k # c + 1
      <4> SUFFICES ASSUME k = c + 1 PROVE FALSE
        OBVIOUS
      <4>1. k # 1
        BY <1>7
      <4>2. s[k].p1 = 2
        BY <1>7, <4>1
      <4> QED BY <1>8, <1>12, <4>2
    <3> QED BY <1>7, <3>1
  <2>3. HashData' = H
    BY <2>1 DEF HashData, H
  <2>4. \E j \in 1 .. ChunkCount(HashData') + 1 :
          /\ host'.chunks = Rest(Chunks(HashData'), j)
          /\ device'.phase = "approved" => device'.hashed = Joined(HashData', j)
    BY <1>9, <2>1, <2>2, <2>3 DEF c, s
  <2>5. Asking' /\ Signing'
    BY <1>1, <1>9, <1>10, <2>1, <2>4 DEF Asking, Signing
  <2> QED BY <1>1, <2>1, <2>5, RequestKeeps
<1> QED BY <1>11, <1>12

(* The device signs what it has hashed, once for each spend.               *)
LEMMA AskSignatureKeeps ==
  ASSUME HwInv, AskSignature
  PROVE  HwInv'
<1> DEFINE sig == [of |-> device.sigs + 1, hash |-> device.hashed]
           l == Len(host.sigs)
<1>1. /\ host.pc = "sign" /\ hwTx' = hwTx /\ raw' = raw
      /\ device' = [device EXCEPT !.sigs = @ + 1]
      /\ host' = [host EXCEPT !.sigs = Append(@, sig)]
  BY DEF AskSignature
<1>2. Shapes
  BY <1>1, ShapesNow
<1>3. /\ host.spends = hwTx.inputs /\ host.outs = hwTx.outputs /\ Fits
      /\ device.hashed = HashData /\ IsList(host.sigs) /\ device.sigs = l
      /\ \A n \in 1 .. l : host.sigs[n] = [of |-> n, hash |-> HashData]
  BY <1>1 DEF HwInv, Signing
<1>4. PICK S : host.sigs \in Seq(S)
  BY <1>3 DEF IsList
<1> DEFINE t == Append(host.sigs, sig)
<1> HIDE DEF sig
<1>5. host.sigs \in Seq(S \cup {sig})
  BY <1>4, SeqMonotonic
<1>6. /\ t \in Seq(S \cup {sig}) /\ Len(t) = l + 1 /\ t[l + 1] = sig
      /\ \A n \in 1 .. l : t[n] = host.sigs[n]
  BY <1>5, AppendProperties
<1>7. l \in Nat /\ sig = [of |-> l + 1, hash |-> HashData]
  BY <1>3, <1>4, LenProperties DEF sig
<1> HIDE DEF t
<1>8. /\ host'.pc = "sign" /\ host'.spends = hwTx.inputs /\ host'.outs = hwTx.outputs
      /\ host'.sigs = t /\ Shapes'
  BY <1>1, <1>2, <1>3 DEF Shapes, t
<1>9. /\ device'.hashed = device.hashed /\ device'.buffer = device.buffer /\ device'.sigs = l + 1
  BY <1>1, <1>2, <1>3 DEF Shapes
<1>10. HashData' = HashData /\ Fits'
  BY <1>1, <1>3, <1>8, <1>9 DEF HashData, Fits, Header, Shown
<1> HIDE DEF l
<1>11. \A n \in 1 .. l + 1 : t[n] = [of |-> n, hash |-> HashData]
  <2> SUFFICES ASSUME NEW n \in 1 .. l + 1 PROVE t[n] = [of |-> n, hash |-> HashData]
    OBVIOUS
  <2>1. CASE n = l + 1
    BY <1>6, <1>7, <2>1
  <2>2. CASE n # l + 1
    <3>1. n \in 1 .. l
      BY <1>7, <2>2
    <3> QED BY <1>3, <1>6, <3>1
  <2> QED BY <2>1, <2>2
<1>12. IsList(t)
  BY <1>6 DEF IsList
<1>13. Asking' /\ Signing'
  BY <1>1, <1>3, <1>6, <1>8, <1>9, <1>10, <1>11, <1>12 DEF Asking, Signing
<1> QED BY <1>1, <1>8, <1>13, RequestKeeps

(* The host puts together what it has taken, with these signatures.        *)
LEMMA AssembleKeeps ==
  ASSUME HwInv, Assemble
  PROVE  HwInv'
<1> DEFINE tx == TxData
<1>1. /\ host.pc = "sign" /\ Len(host.sigs) = Len(host.spends)
      /\ raw' = raw \cup {tx} /\ host' = NoCall /\ hwTx' = hwTx /\ device' = device
  BY DEF Assemble
<1>2. PlanFits(hwTx)
  BY DEF HwInv
<1>3. /\ host.spends = hwTx.inputs /\ host.outs = hwTx.outputs /\ Fits
      /\ \A n \in 1 .. Len(host.sigs) : host.sigs[n] = [of |-> n, hash |-> HashData]
  BY <1>1 DEF HwInv, Signing
<1> DEFINE i == Len(hwTx.inputs)
           o == Len(hwTx.outputs)
<1>4. [ins |-> i % CountModulus, outs |-> o % CountModulus] = [ins |-> i, outs |-> o]
  BY <1>2, <1>3, ToldBegins DEF Fits, Header, Shown
<1>5. i % CountModulus = i /\ o % CountModulus = o
  BY <1>4
<1>6. tx = [ins |-> i, spends |-> hwTx.inputs, outs |-> o, outputs |-> hwTx.outputs,
            sigs |-> host.sigs, shown |-> Told(hwTx)]
  BY <1>3, <1>5 DEF TxData, Shown, Fits
<1>7. Told(hwTx) = <<[ins |-> i, outs |-> o]>> \o hwTx.inputs \o hwTx.outputs
  BY <1>5 DEF Told
<1>8. DOMAIN hwTx.inputs = 1 .. i
  BY <1>2, LenProperties DEF PlanFits, IsList
<1> HIDE DEF tx
<1>9. /\ tx.shown = <<[ins |-> tx.ins, outs |-> tx.outs]>> \o tx.spends \o tx.outputs
      /\ tx.ins = Len(tx.spends) /\ tx.outs = Len(tx.outputs)
      /\ \A n \in DOMAIN tx.spends :
           tx.sigs[n] = [of |-> n, hash |-> tx.spends \o tx.outputs]
  BY <1>1, <1>3, <1>6, <1>7, <1>8 DEF HashData
<1>10. SignedIsShown'
  BY <1>1, <1>9 DEF HwInv, SignedIsShown
<1>11. PlanFits(hwTx)'
  BY <1>1, <1>2 DEF PlanFits
<1> QED BY <1>1, <1>10, <1>11, Ended

(* Whatever the user approves or refuses, and whatever fails or is lost or *)
(* is tried again, a transaction that the host returns has the spends and  *)
(* outputs that the device has shown, and signatures of just these         *)
(* (ledger/sapling.rs:167-395).                                            *)
THEOREM SignedWasShown == HwSpec => []SignedIsShown
<1>1. HwInv /\ [HwNext]_hwVars => HwInv'
  <2> SUFFICES ASSUME HwInv, [HwNext]_hwVars PROVE HwInv'
    OBVIOUS
  <2> USE HwAssumption
  <2>1. CASE BuildTxLedger
    BY <2>1, BuildKeeps
  <2>2. CASE \E approved \in BOOLEAN : SendChunk(approved)
    BY <2>2, SendChunkKeeps
  <2>3. CASE AskSpend
    BY <2>3, AskSpendKeeps
  <2>4. CASE AskOutput
    BY <2>4, AskOutputKeeps
  <2>5. CASE SendHashData
    BY <2>5, SendHashDataKeeps
  <2>6. CASE AskSignature
    BY <2>6, AskSignatureKeeps
  <2>7. CASE Assemble
    BY <2>7, AssembleKeeps
  <2>8. CASE BindingFails \/ HostPanics
    <3>1. host' = NoCall /\ device' = device /\ raw' = raw /\ (hwTx' = hwTx \/ hwTx' \in HwPlans)
      BY <2>8 DEF BindingFails, HostPanics
    <3>2. PlanFits(hwTx')
      BY <3>1 DEF HwInv, HwAssumption, PlanFits, IsList
    <3>3. SignedIsShown'
      BY <3>1 DEF HwInv, SignedIsShown
    <3> QED BY <3>1, <3>2, <3>3, Ended
  <2>9. CASE UNCHANGED hwVars
    <3>1. hwTx' = hwTx /\ host' = host /\ device' = device /\ raw' = raw
      BY <2>9 DEF hwVars
    <3>2. HashData' = HashData /\ Fits' = Fits
      BY <3>1 DEF HashData, Fits, Header, Shown
    <3>3. Calling' /\ Describing' /\ SignedIsShown'
      BY <3>1 DEF HwInv, Calling, Describing, SignedIsShown
    <3>4. Asking' /\ Signing'
      BY <3>1, <3>2 DEF HwInv, Asking, Signing
    <3> QED BY <3>1, <3>3, <3>4 DEF HwInv
  <2> QED BY <2>1, <2>2, <2>3, <2>4, <2>5, <2>6, <2>7, <2>8, <2>9 DEF HwNext
<1>2. HwInv => SignedIsShown
  BY DEF HwInv
<1>3. HwInit => HwInv
  BY HwAssumption, HwInvInit
<1> QED BY <1>1, <1>2, <1>3, PTL DEF HwSpec

-----------------------------------------------------------------------------
(* Fountain codes.                                                         *)

(* Where the row of drop k begins: the drops since have the id of k and    *)
(* have returned nothing, and the one before has not.                      *)
Breaks(j, k) == returned[j] # Nothing \/ IdOf[puts[j].of] # IdOf[puts[k].of]
Begins(i, k) ==
  /\ i \in 1 .. k
  /\ \A j \in i .. k - 1 : ~Breaks(j, k)
  /\ i = 1 \/ Breaks(i - 1, k)
Between(i, k) == {puts[j] : j \in i .. k}

OwnId(p) == IdOf[p] # 0 /\ \A q \in DropPayload \ {p} : IdOf[q] # IdOf[p]
FromRow(k) ==
  OwnId(puts[k].of) =>
    \E i \in 1 .. k : /\ Begins(i, k)
                      /\ returned[k] = IF Cardinality(Between(i, k)) >= Needed
                                         THEN puts[k].of ELSE Nothing

DecoderTypes ==
  /\ puts \in Seq(Drops)
  /\ \E S : returned \in Seq(S)
  /\ Len(returned) = Len(puts)
  /\ decoder = [id |-> decoder.id, made |-> decoder.made, has |-> decoder.has]

(* While the last drop has returned nothing, the decoder has its id; and   *)
(* with an id other than 0, the drops of its row.                          *)
DecoderHasRow ==
  /\ puts # <<>> /\ returned[Len(puts)] = Nothing => decoder.id = IdOf[puts[Len(puts)].of]
  /\ decoder.id # 0 =>
       /\ decoder.made /\ puts # <<>> /\ returned[Len(puts)] = Nothing
       /\ \E i \in 1 .. Len(puts) : Begins(i, Len(puts)) /\ decoder.has = Between(i, Len(puts))

FountainInv == DecoderTypes /\ DecoderHasRow /\ \A k \in 1 .. Len(puts) : FromRow(k)

(* Nothing has been put, and the decoder has no id.                        *)
LEMMA FountainInvInit == FountainInit => FountainInv
<1> SUFFICES ASSUME FountainInit PROVE FountainInv
  OBVIOUS
<1>1. puts = <<>> /\ returned = <<>> /\ decoder = [id |-> 0, made |-> FALSE, has |-> {}]
  BY DEF FountainInit
<1>2. DecoderTypes
  BY <1>1, EmptySeq DEF DecoderTypes
<1>3. DecoderHasRow /\ Len(puts) = 0
  BY <1>1 DEF DecoderHasRow
<1> QED BY <1>2, <1>3 DEF FountainInv

(* Enough drops of one payload give it back, and fewer give nothing.       *)
LEMMA DecodesOne ==
  ASSUME FountainAssumption, NEW has, IsFiniteSet(has), has # {}, NEW p \in DropPayload,
         \A d \in has : d.of = p
  PROVE  Decodes(has) = {IF Cardinality(has) >= Needed THEN p ELSE Nothing}
<1>1. Cardinality(has) \in Nat /\ Needed \in Nat
  BY FS_CardinalityType DEF FountainAssumption
<1>2. (CHOOSE d \in has : TRUE) \in has
  OBVIOUS
<1>3. (CHOOSE d \in has : TRUE).of = p
  BY <1>2
<1> QED BY <1>1, <1>3 DEF Decodes

(* A put changes nothing of the drops before it.                           *)
LEMMA PutKeeps ==
  ASSUME FountainInv, NEW d \in Drops, PutDrop(d)
  PROVE  /\ DecoderTypes'
         /\ Len(puts) \in Nat /\ Len(puts)' = Len(puts) + 1
         /\ puts'[Len(puts) + 1] = d
         /\ \A k \in 1 .. Len(puts) : puts'[k] = puts[k] /\ returned'[k] = returned[k]
<1>1. PICK S : returned \in Seq(S)
  BY DEF FountainInv, DecoderTypes
<1>2. puts \in Seq(Drops) /\ Len(returned) = Len(puts) /\ puts' = Append(puts, d)
  BY DEF FountainInv, DecoderTypes, PutDrop
<1>3. \E r : returned' = Append(returned, r)
  BY DEF PutDrop
<1>4. PICK r : returned' = Append(returned, r)
  BY <1>3
<1>5. puts' \in Seq(Drops) /\ Len(puts') = Len(puts) + 1 /\ puts'[Len(puts) + 1] = d
      /\ \A k \in 1 .. Len(puts) : puts'[k] = puts[k]
  BY <1>2, AppendProperties
<1>6. returned \in Seq(S \cup {r})
  BY <1>1, SeqMonotonic
<1>7. returned' \in Seq(S \cup {r}) /\ Len(returned') = Len(puts) + 1
      /\ \A k \in 1 .. Len(puts) : returned'[k] = returned[k]
  BY <1>2, <1>4, <1>6, AppendProperties
<1>8. decoder' = [id |-> decoder.id, made |-> decoder.made, has |-> decoder.has]'
  <2>1. decoder = [id |-> decoder.id, made |-> decoder.made, has |-> decoder.has]
    BY DEF FountainInv, DecoderTypes
  <2> DEFINE t == TurnedTo(IdOf[d.of])
  <2>2. t = [id |-> t.id, made |-> t.made, has |-> t.has]
    BY <2>1 DEF TurnedTo
  <2>3. \/ decoder' = t
        \/ decoder' = [id |-> 0, made |-> FALSE, has |-> {}]
        \/ decoder' = [t EXCEPT !.has = @ \cup {d}]
    BY DEF PutDrop
  <2> HIDE DEF t
  <2> QED BY <2>2, <2>3
<1> QED BY <1>2, <1>5, <1>7, <1>8, LenProperties DEF DecoderTypes

(* A put moves no row that is already there.                               *)
LEMMA RowKept ==
  ASSUME FountainInv, NEW d \in Drops, PutDrop(d), NEW k \in 1 .. Len(puts), NEW i \in 1 .. k
  PROVE  (Begins(i, k)' <=> Begins(i, k)) /\ Between(i, k)' = Between(i, k)
<1>1. Len(puts) \in Nat /\ \A j \in 1 .. Len(puts) : puts'[j] = puts[j] /\ returned'[j] = returned[j]
  BY PutKeeps
<1>2. \A j \in 1 .. k : puts'[j] = puts[j] /\ returned'[j] = returned[j]
  BY <1>1
<1>3. \A j \in 1 .. k : Breaks(j, k)' <=> Breaks(j, k)
  BY <1>2 DEF Breaks
<1>4. k \in Nat /\ i \in Nat
  BY <1>1
<1> QED BY <1>2, <1>3, <1>4 DEF Begins, Between

(* A drop whose id is not 0 goes to a decoder that has the row before it.  *)
LEMMA NewRow ==
  ASSUME FountainInv, NEW d \in Drops, PutDrop(d), IdOf[d.of] # 0,
         NEW n \in Nat, NEW m \in Nat, n = Len(puts), m = n + 1
  PROVE  LET t == TurnedTo(IdOf[d.of])
         IN  t.made /\ \E i \in 1 .. m : Begins(i, m)' /\ t.has \cup {d} = Between(i, m)'
<1> DEFINE t == TurnedTo(IdOf[d.of])
<1>1. n \in Nat /\ puts'[m] = d
      /\ \A j \in 1 .. n : puts'[j] = puts[j] /\ returned'[j] = returned[j]
  BY PutKeeps
<1>2. n = 0 <=> puts = <<>>
  BY EmptySeq DEF FountainInv, DecoderTypes
<1>3. CASE decoder.id = IdOf[d.of]
  <2>1. t = decoder
    BY <1>3 DEF TurnedTo
  <2>2. decoder.made /\ n # 0 /\ returned[n] = Nothing /\ decoder.id = IdOf[puts[n].of]
    BY <1>2, <1>3 DEF FountainInv, DecoderHasRow
  <2>3. PICK i \in 1 .. n : Begins(i, n) /\ decoder.has = Between(i, n)
    BY <1>3 DEF FountainInv, DecoderHasRow
  <2>4. \A j \in 1 .. n - 1 : Breaks(j, m)' <=> Breaks(j, n)
    BY <1>1, <1>3, <2>2 DEF Breaks
  <2>5. ~Breaks(n, m)'
    BY <1>1, <1>3, <2>2 DEF Breaks
  <2>6. Begins(i, m)'
    <3>1. \A j \in i .. m - 1 : ~Breaks(j, m)'
      BY <1>1, <2>3, <2>4, <2>5 DEF Begins
    <3>2. i = 1 \/ Breaks(i - 1, m)'
      BY <1>1, <2>3, <2>4 DEF Begins
    <3> QED BY <1>1, <3>1, <3>2 DEF Begins
  <2>7. Between(i, m)' = Between(i, n) \cup {d}
    BY <1>1 DEF Between
  <2>8. i \in 1 .. m
    BY <1>1
  <2> QED BY <2>1, <2>2, <2>3, <2>6, <2>7, <2>8
<1>4. CASE decoder.id # IdOf[d.of]
  <2>1. t.made /\ t.has = {}
    BY <1>4 DEF TurnedTo
  <2>2. m = 1 \/ Breaks(m - 1, m)'
    <3>1. CASE n # 0
      <4>1. returned[n] # Nothing \/ decoder.id = IdOf[puts[n].of]
        BY <1>2, <3>1 DEF FountainInv, DecoderHasRow
      <4>2. n \in 1 .. n /\ m - 1 = n
        BY <1>1, <3>1
      <4> QED BY <1>1, <1>4, <4>1, <4>2 DEF Breaks
    <3> QED BY <1>1, <3>1
  <2>3. Begins(m, m)'
    BY <1>1, <2>2 DEF Begins
  <2>4. Between(m, m)' = {d}
    BY <1>1 DEF Between
  <2>5. m \in 1 .. m
    BY <1>1
  <2> QED BY <2>1, <2>3, <2>4, <2>5
<1> QED BY <1>3, <1>4

(* A drop of the same row joins the others, and any other one starts a row. *)
LEMMA PutKeepsInv ==
  ASSUME FountainAssumption, FountainInv, NEW d \in Drops, PutDrop(d)
  PROVE  FountainInv'
<1> DEFINE t == TurnedTo(IdOf[d.of])
<1>0. PICK n \in Nat, m \in Nat : n = Len(puts) /\ m = n + 1
  BY PutKeeps
<1>1. DecoderTypes' /\ Len(puts)' = m /\ puts'[m] = d
  BY <1>0, PutKeeps
<1>2. PICK r : /\ returned'[m] = r
               /\ \/ ~t.made /\ decoder' = t /\ r = Nothing
                  \/ /\ t.made /\ r \in Decodes(t.has \cup {d})
                     /\ decoder' = IF r # Nothing THEN [id |-> 0, made |-> FALSE, has |-> {}]
                                   ELSE [t EXCEPT !.has = @ \cup {d}]
  <2>1. PICK r : /\ returned' = Append(returned, r)
                 /\ \/ ~t.made /\ decoder' = t /\ r = Nothing
                    \/ /\ t.made /\ r \in Decodes(t.has \cup {d})
                       /\ decoder' = IF r # Nothing THEN [id |-> 0, made |-> FALSE, has |-> {}]
                                     ELSE [t EXCEPT !.has = @ \cup {d}]
    <3> HIDE DEF t
    <3> QED BY DEF PutDrop, t
  <2>2. PICK S : returned \in Seq(S) /\ Len(returned) = n
    BY <1>0 DEF FountainInv, DecoderTypes
  <2>3. returned \in Seq(S \cup {r})
    BY <2>2, SeqMonotonic
  <2>4. returned'[m] = r
    BY <1>0, <2>1, <2>2, <2>3, AppendProperties
  <2> QED BY <2>1, <2>4
<1>3. t = [id |-> t.id, made |-> t.made, has |-> t.has] /\ t.id = IdOf[d.of]
  BY DEF FountainInv, DecoderTypes, TurnedTo
<1>4. IdOf[d.of] # 0 => t.made /\ \E i \in 1 .. m : Begins(i, m)' /\ t.has \cup {d} = Between(i, m)'
  BY <1>0, NewRow
<1> HIDE DEF t
<1>5. r = Nothing => decoder'.id = IdOf[d.of]
  BY <1>2, <1>3
<1>6. decoder'.id # 0 => r = Nothing /\ IdOf[d.of] # 0
  BY <1>2, <1>3, <1>4
<1>7. decoder'.id # 0 => decoder'.made /\ decoder'.has = t.has \cup {d}
  BY <1>2, <1>3, <1>4, <1>6
<1>8. puts' # <<>>
  BY <1>0, <1>1, EmptySeq
<1>9. DecoderHasRow'
  BY <1>1, <1>2, <1>4, <1>5, <1>6, <1>7, <1>8 DEF DecoderHasRow
<1>10. FromRow(m)'
  <2> SUFFICES ASSUME OwnId(d.of)
               PROVE  \E i \in 1 .. m : /\ Begins(i, m)'
                                        /\ r = IF Cardinality(Between(i, m)') >= Needed
                                                 THEN d.of ELSE Nothing
    BY <1>1, <1>2 DEF FromRow
  <2>1. PICK i \in 1 .. m : Begins(i, m)' /\ t.has \cup {d} = Between(i, m)'
    BY <1>4 DEF OwnId
  <2>2. IsFiniteSet(Between(i, m)')
    <3>1. IsFiniteSet(i .. m)
      BY <1>0, FS_Interval
    <3>2. IsFiniteSet({puts'[j] : j \in i .. m})
      <4> DEFINE T == {puts'[j] : j \in i .. m}
                 f == [j \in i .. m |-> puts'[j]]
      <4>1. f \in Surjection(i .. m, T)
        BY DEF Surjection
      <4> QED BY <3>1, <4>1, FS_Surjection
    <3> QED BY <3>2 DEF Between
  <2>3. d.of \in DropPayload /\ d \in Between(i, m)'
    BY <2>1 DEF Drops
  <2>4. \A e \in Between(i, m)' : e.of = d.of
    <3> SUFFICES ASSUME NEW j \in i .. m PROVE puts'[j].of = d.of
      BY DEF Between
    <3>1. puts'[j] \in Drops
      BY <1>1, ElementOfSeq DEF DecoderTypes
    <3>2. IdOf[puts'[j].of] = IdOf[d.of]
      <4>1. CASE j = m
        BY <1>1, <4>1
      <4>2. CASE j # m
        <5>1. j \in i .. m - 1
          BY <1>1, <4>2
        <5> QED BY <1>1, <2>1, <5>1 DEF Begins, Breaks
      <4> QED BY <4>1, <4>2
    <3> QED BY <3>1, <3>2 DEF OwnId, Drops
  <2>5. t.made /\ r \in Decodes(Between(i, m)')
    BY <1>2, <1>4, <2>1 DEF OwnId
  <2>6. Decodes(Between(i, m)') = {IF Cardinality(Between(i, m)') >= Needed THEN d.of ELSE Nothing}
    <3> DEFINE has == Between(i, m)'
    <3>1. IsFiniteSet(has) /\ has # {} /\ \A e \in has : e.of = d.of
      BY <2>2, <2>3, <2>4
    <3> HIDE DEF has
    <3>2. Decodes(has) = {IF Cardinality(has) >= Needed THEN d.of ELSE Nothing}
      BY <2>3, <3>1, DecodesOne
    <3> QED BY <3>2 DEF has
  <2> QED BY <2>1, <2>5, <2>6
<1>11. \A k \in 1 .. n : FromRow(k)'
  <2> SUFFICES ASSUME NEW k \in 1 .. n PROVE FromRow(k)'
    OBVIOUS
  <2>1. FromRow(k)
    BY <1>0 DEF FountainInv
  <2>2. puts'[k] = puts[k] /\ returned'[k] = returned[k]
    BY <1>0, PutKeeps
  <2>3. \A i \in 1 .. k : (Begins(i, k)' <=> Begins(i, k)) /\ Between(i, k)' = Between(i, k)
    BY <1>0, RowKept
  <2> QED BY <2>1, <2>2, <2>3 DEF FromRow
<1>12. \A k \in 1 .. m : FromRow(k)'
  BY <1>0, <1>1, <1>10, <1>11
<1> QED BY <1>1, <1>9, <1>12 DEF FountainInv

(* The beginning of a row is where Row(k) finds it.                        *)
LEMMA RowOf ==
  ASSUME NEW k \in Nat \ {0}, NEW i \in 1 .. k, Begins(i, k)
  PROVE  Row(k) = Between(i, k)
<1> DEFINE Start(h) == /\ \A j \in h .. k - 1 : ~Breaks(j, k)
                       /\ h = 1 \/ Breaks(h - 1, k)
           start == CHOOSE h \in 1 .. k : Start(h)
<1>1. Start(i)
  BY DEF Begins
<1>2. start \in 1 .. k /\ Start(start)
  BY <1>1
<1>3. start = i
  <2>1. CASE start < i
    <3>1. i - 1 \in start .. k - 1 /\ i # 1
      BY <1>2, <2>1
    <3> QED BY <1>1, <1>2, <3>1
  <2>2. CASE i < start
    <3>1. start - 1 \in i .. k - 1 /\ start # 1
      BY <1>2, <2>2
    <3> QED BY <1>1, <1>2, <3>1
  <2> QED BY <1>2, <2>1, <2>2
<1>4. Row(k) = {puts[j] : j \in start .. k}
  BY DEF Row, Breaks
<1> QED BY <1>3, <1>4 DEF Between

(* What the shared decoder returns is the payload of the drops, as soon as *)
(* there are enough of them in a row and not before, whatever drops of     *)
(* other payloads come in between, again or never (fountain.rs:64-80).     *)
THEOREM MergeReturnsIt == FountainSpec => []MergeReturnsPayload
<1>1. FountainInv /\ [FountainNext]_fountainVars => FountainInv'
  <2> SUFFICES ASSUME FountainInv, [FountainNext]_fountainVars PROVE FountainInv'
    OBVIOUS
  <2>1. CASE FountainNext
    BY <2>1, FountainAssumption, PutKeepsInv DEF FountainNext
  <2>2. CASE UNCHANGED fountainVars
    <3>1. decoder' = decoder /\ puts' = puts /\ returned' = returned
      BY <2>2 DEF fountainVars
    <3>2. DecoderTypes'
      BY <3>1 DEF FountainInv, DecoderTypes
    <3>3. \A k, i : Begins(i, k)' = Begins(i, k) /\ Between(i, k)' = Between(i, k)
      BY <3>1 DEF Begins, Breaks, Between
    <3>4. DecoderHasRow'
      BY <3>1, <3>3 DEF FountainInv, DecoderHasRow
    <3>5. \A k \in 1 .. Len(puts) : FromRow(k)'
      BY <3>1, <3>3 DEF FountainInv, FromRow
    <3> QED BY <3>1, <3>2, <3>4, <3>5 DEF FountainInv
  <2> QED BY <2>1, <2>2
<1>2. FountainInv => MergeReturnsPayload
  <2> SUFFICES ASSUME FountainInv, NEW k \in DOMAIN puts, OwnId(puts[k].of)
               PROVE  returned[k] = IF Cardinality(Row(k)) >= Needed THEN puts[k].of ELSE Nothing
    BY DEF MergeReturnsPayload, OwnId
  <2>1. k \in 1 .. Len(puts) /\ k \in Nat \ {0}
    BY LenProperties DEF FountainInv, DecoderTypes
  <2>2. PICK i \in 1 .. k : /\ Begins(i, k)
                            /\ returned[k] = IF Cardinality(Between(i, k)) >= Needed
                                               THEN puts[k].of ELSE Nothing
    BY <2>1 DEF FountainInv, FromRow
  <2> QED BY <2>1, <2>2, RowOf
<1> QED BY <1>1, <1>2, FountainInvInit, PTL DEF FountainSpec

-----------------------------------------------------------------------------
(***************************************************************************)
(* retrieve_tx_info: when the call returns Ok, no answer is left behind    *)
(* and each contact is the latest, whatever order the answers came in and  *)
(* however often the task of the requests was blocked on the full channel. *)
(***************************************************************************)
Waiting == {"asked", "ready", "failed"}

Types ==
  /\ req \in [TxIndex -> Waiting \cup {"sent", "skipped"}]
  /\ caller \in {"run", "blocked", "wait", "panic", "join", "ok", "err"}
  /\ held \in SUBSET TxIndex
  /\ chan \in Seq(TxIndex)
  /\ writer \in {"spawned", "run", "store", "ended", "failed"}
  /\ received \in Seq(TxIndex)
  /\ meta \in SUBSET TxIndex

(* An answer that has been sent is in the channel or stored, until the     *)
(* writer fails; what has been received is what is stored.                 *)
Delivered ==
  writer # "failed" =>
    /\ Answered = ToSet(received) \cup ToSet(chan)
    /\ meta = ToSet(received)

(* The task that is blocked holds an answer that is not sent yet.          *)
HeldReady ==
  /\ \A i \in held : req[i] = "ready"
  /\ held # {} => caller = "blocked"

(* The writer only ends when every request is over and the channel empty,  *)
(* and the call returns Ok only after it.                                  *)
Over ==
  /\ caller \in {"join", "ok", "err"} => AllOver
  /\ writer \in {"store", "ended"} => caller \in {"join", "ok", "err"} /\ chan = << >>
  /\ caller = "ok" => writer = "ended"

DInv == Types /\ Delivered /\ HeldReady /\ Over

(* What a sequence holds after an Append, and what a Tail leaves of it.    *)
LEMMA AppendElements ==
  ASSUME NEW S, NEW s \in Seq(S), NEW e \in S
  PROVE  ToSet(Append(s, e)) = ToSet(s) \cup {e}
<1> DEFINE n == Len(s)
           t == Append(s, e)
<1>1. n \in Nat /\ DOMAIN s = 1..n /\ DOMAIN t = 1..(n + 1)
      /\ (\A k \in 1..n : t[k] = s[k]) /\ t[n + 1] = e
  BY AppendProperties
<1> HIDE DEF n, t
<1>2. ToSet(t) = ToSet(s) \cup {e}
  BY <1>1 DEF ToSet
<1> QED BY <1>2 DEF t

\* What is left in a queue whose head is taken.
LEMMA TailElements ==
  ASSUME NEW S, NEW s \in Seq(S), s # << >>
  PROVE  ToSet(s) = ToSet(Tail(s)) \cup {Head(s)}
<1> DEFINE n == Len(s)
           t == Tail(s)
<1>1. n \in Nat \ {0} /\ DOMAIN s = 1..n /\ DOMAIN t = 1..(n - 1)
      /\ (\A k \in 1..(n - 1) : t[k] = s[k + 1]) /\ Head(s) = s[1]
  BY HeadTailProperties, EmptySeq
<1> HIDE DEF n, t
<1>2. \A k \in 2..n : k - 1 \in 1..(n - 1) /\ t[k - 1] = s[k]
  BY <1>1
<1>3. \A k \in 1..n : k = 1 \/ k \in 2..n
  BY <1>1
<1>4. \A k \in 1..(n - 1) : k + 1 \in 1..n
  BY <1>1
<1>5. ToSet(s) \subseteq ToSet(t) \cup {Head(s)}
  <2> SUFFICES ASSUME NEW k \in 1..n PROVE s[k] \in ToSet(t) \cup {Head(s)}
    BY <1>1 DEF ToSet
  <2>1. CASE k = 1
    BY <1>1, <2>1
  <2>2. CASE k \in 2..n
    BY <1>1, <1>2, <2>2 DEF ToSet
  <2> QED BY <1>3, <2>1, <2>2
<1>6. ToSet(t) \cup {Head(s)} \subseteq ToSet(s)
  BY <1>1, <1>4 DEF ToSet
<1>7. ToSet(s) = ToSet(t) \cup {Head(s)}
  BY <1>5, <1>6
<1> QED BY <1>7 DEF t

LEMMA DInvInit == Init => DInv
<1> SUFFICES ASSUME Init PROVE DInv
  OBVIOUS
<1>1. Types
  BY DEF Init, Types, Waiting
<1>2. Answered = {} /\ ToSet(received) = {} /\ ToSet(chan) = {}
  BY DEF Init, Answered, ToSet
<1> QED BY <1>1, <1>2 DEF Init, DInv, Delivered, HeldReady, Over

(* Sending appends to the channel; the rest stays.                         *)
LEMMA SendKeeps ==
  ASSUME DInv, NEW i \in TxIndex, req[i] = "ready", ~ReceiverDropped,
         chan' = Append(chan, i), req' = [req EXCEPT ![i] = "sent"],
         caller \in {"run", "blocked"}, caller' = "run",
         held' = {},
         UNCHANGED <<writer, received, meta>>
  PROVE  DInv'
<1>1. Types'
  BY AppendProperties DEF DInv, Types, Waiting
<1>2. ToSet(chan') = ToSet(chan) \cup {i}
  BY AppendElements DEF DInv, Types
<1>3. Answered' = Answered \cup {i}
  BY DEF DInv, Types, Answered
<1>4. Delivered'
  BY <1>2, <1>3 DEF DInv, Delivered, ReceiverDropped
<1>5. HeldReady' /\ Over'
  BY DEF DInv, Types, HeldReady, Over, ReceiverDropped
<1> QED BY <1>1, <1>4, <1>5 DEF DInv

LEMMA DInvNext == DInv /\ [Next]_vars => DInv'
<1> SUFFICES ASSUME DInv, [Next]_vars PROVE DInv'
  OBVIOUS
<1>1. CASE UNCHANGED vars
  BY <1>1 DEF vars, DInv, Types, Delivered, HeldReady, Over, AllOver, Answered
<1>2. ASSUME NEW i \in TxIndex, Answer(i) PROVE DInv'
  <2>1. PICK r \in {"ready", "failed"} : req' = [req EXCEPT ![i] = r]
    BY <1>2 DEF Answer
  <2>2. req[i] = "asked" /\ UNCHANGED <<caller, held, yielded, chan, writer, received, dbVars>>
    BY <1>2 DEF Answer
  <2>3. Answered' = Answered
    BY <2>1, <2>2 DEF DInv, Types, Answered
  <2>4. Types'
    BY <2>1, <2>2 DEF DInv, Types, Waiting, dbVars
  <2>5. HeldReady'
    BY <2>1, <2>2 DEF DInv, Types, HeldReady
  <2>6. ~AllOver
    BY <2>2 DEF AllOver
  <2> QED BY <2>2, <2>3, <2>4, <2>5, <2>6 DEF DInv, Delivered, Over, dbVars
<1>3. ASSUME NEW i \in TxIndex, Send(i) PROVE DInv'
  <2>1. CASE Len(chan) < Capacity
    BY <1>3, <2>1, SendKeeps DEF Send, dbVars, DInv, HeldReady
  <2>2. CASE ~(Len(chan) < Capacity)
    <3>1. caller' = "blocked" /\ held' = {i} /\ caller = "run" /\ req[i] = "ready" /\ ~ReceiverDropped
          /\ UNCHANGED <<chan, req, yielded, writer, received, dbVars>>
      BY <1>3, <2>2 DEF Send
    <3> QED BY <3>1 DEF DInv, Types, Delivered, HeldReady, Over, AllOver, Answered, dbVars, ReceiverDropped
  <2> QED BY <2>1, <2>2
<1>4. ASSUME NEW i \in TxIndex, SendResumes(i) PROVE DInv'
  <2>1. req[i] = "ready"
    BY <1>4 DEF SendResumes, DInv, HeldReady
  <2> QED BY <1>4, <2>1, SendKeeps DEF SendResumes, dbVars
<1>5. ASSUME NEW i \in TxIndex, SkipFailed(i) PROVE DInv'
  <2>1. req[i] = "failed" /\ req' = [req EXCEPT ![i] = "skipped"] /\ caller = "run"
        /\ UNCHANGED <<caller, held, yielded, chan, writer, received, dbVars>>
    BY <1>5 DEF SkipFailed
  <2>2. Answered' = Answered
    BY <2>1 DEF DInv, Types, Answered
  <2> QED BY <2>1, <2>2 DEF DInv, Types, Waiting, Delivered, HeldReady, Over, dbVars
<1>6. ASSUME SendPanic PROVE DInv'
  <2>1. caller \in {"run", "blocked"} /\ caller' = "panic" /\ held' = {}
        /\ UNCHANGED <<req, yielded, chan, writer, received, dbVars>>
    BY <1>6 DEF SendPanic
  <2> QED BY <2>1 DEF DInv, Types, Delivered, HeldReady, Over, AllOver, Answered, dbVars
<1>7. ASSUME Yield \/ Resume PROVE DInv'
  <2>1. /\ UNCHANGED <<req, held, chan, writer, received, dbVars>>
        /\ caller \in {"run", "wait"} /\ caller' \in {"run", "wait", "join"}
        /\ caller' = "join" => AllOver
    BY <1>7 DEF Yield, Resume
  <2> QED BY <2>1 DEF DInv, Types, Delivered, HeldReady, Over, AllOver, Answered, dbVars
<1>8. ASSUME Join PROVE DInv'
  <2>1. /\ caller = "join" /\ writer \in {"ended", "failed"}
        /\ caller' = IF writer = "ended" THEN "ok" ELSE "err"
        /\ UNCHANGED <<req, held, yielded, chan, writer, received, dbVars>>
    BY <1>8 DEF Join
  <2> QED BY <2>1 DEF DInv, Types, Delivered, HeldReady, Over, AllOver, Answered, dbVars
<1>9. ASSUME StartWriter PROVE DInv'
  BY <1>9 DEF StartWriter, DInv, Types, Delivered, HeldReady, Over, AllOver, Answered, dbVars
<1>10. ASSUME Receive PROVE DInv'
  <2>1. /\ writer = "run" /\ chan # << >> /\ chan' = Tail(chan)
        /\ received' = Append(received, Head(chan)) /\ meta' = meta \cup {Head(chan)}
        /\ UNCHANGED <<req, caller, held, yielded, writer, contacts>>
    BY <1>10 DEF Receive
  <2>2. chan \in Seq(TxIndex) /\ received \in Seq(TxIndex)
    BY DEF DInv, Types
  <2>3. Head(chan) \in TxIndex /\ chan' \in Seq(TxIndex) /\ received' \in Seq(TxIndex)
    BY <2>1, <2>2, AppendProperties, HeadTailProperties
  <2>4. ToSet(chan) = ToSet(chan') \cup {Head(chan)}
    BY <2>1, <2>2, TailElements
  <2>5. ToSet(received') = ToSet(received) \cup {Head(chan)}
    BY <2>1, <2>2, <2>3, AppendElements
  <2>6. Answered' = Answered
    BY <2>1 DEF Answered
  <2>7. Delivered'
    BY <2>1, <2>4, <2>5, <2>6 DEF DInv, Delivered
  <2>8. Types'
    BY <2>1, <2>3 DEF DInv, Types
  <2> QED BY <2>1, <2>7, <2>8 DEF DInv, HeldReady, Over, AllOver
<1>11. ASSUME ReceiveFail PROVE DInv'
  <2>1. /\ writer = "run" /\ writer' = "failed" /\ chan' = << >> /\ chan # << >>
        /\ UNCHANGED <<req, caller, held, yielded, received, contacts>>
        /\ meta' \in {meta, meta \cup {Head(chan)}}
    BY <1>11 DEF ReceiveFail
  <2>2. Head(chan) \in TxIndex
    BY <2>1, HeadTailProperties DEF DInv, Types
  <2> QED BY <2>1, <2>2 DEF DInv, Types, Delivered, HeldReady, Over, AllOver
<1>12. ASSUME SortContacts PROVE DInv'
  <2>1. /\ writer = "run" /\ writer' = "store" /\ Disconnected
        /\ UNCHANGED <<req, caller, held, yielded, chan, received, meta>>
    BY <1>12 DEF SortContacts, dbVars
  <2> QED BY <2>1 DEF DInv, Types, Delivered, HeldReady, Over, AllOver, Answered,
                      Disconnected, SendersDropped, OriginalDropped
<1>13. ASSUME StoreContacts \/ StoreContactsFail \/ EndWriter PROVE DInv'
  <2>1. /\ writer = "store" /\ writer' \in {"store", "ended", "failed"}
        /\ UNCHANGED <<req, caller, held, yielded, chan, received, meta>>
    BY <1>13 DEF StoreContacts, StoreContactsFail, EndWriter, dbVars
  <2> QED BY <2>1 DEF DInv, Types, Delivered, HeldReady, Over, AllOver, Answered
<1> QED BY <1>1, <1>2, <1>3, <1>4, <1>5, <1>6, <1>7, <1>8, <1>9, <1>10, <1>11, <1>12, <1>13
        DEF Next, Caller, Writer

(* Everything that was answered is stored when the call returns Ok.        *)
THEOREM DetailsAreStored == Spec => []DetailsStored
<1>1. DInv => DetailsStored
  <2> SUFFICES ASSUME DInv, caller = "ok" PROVE meta = Answered
    BY DEF DetailsStored
  <2>1. writer = "ended" /\ chan = << >>
    BY DEF DInv, Over
  <2>2. ToSet(chan) = {}
    BY <2>1 DEF ToSet
  <2> QED BY <2>1, <2>2 DEF DInv, Delivered
<1> QED BY <1>1, DInvInit, DInvNext, PTL DEF Spec

-----------------------------------------------------------------------------
(* The contacts: what the writer has stored so far of what it has          *)
(* received, and what it has still to store, which is of later             *)
(* transactions.                                                           *)
Stored == ToSet(received) \ ToSet(toStore)

LatestOf(rows) ==
  \A c \in Contact :
    /\ \A i \in rows : c \in ContactsOf[i] => i <= contacts[c]
    /\ contacts[c] # 0 => contacts[c] \in rows /\ c \in ContactsOf[contacts[c]]

Ascending(s) == \A j, k \in 1..Len(s) : j < k => s[j] < s[k]

InOrder ==
  /\ writer \in {"spawned", "run"} => contacts = [c \in Contact |-> 0]
  /\ writer \in {"store", "ended"} =>
       /\ contacts \in [Contact -> Nat]
       /\ toStore \in Seq(TxIndex) /\ Ascending(toStore)
       /\ ToSet(toStore) \subseteq ToSet(received)
       /\ \A i \in Stored : \A j \in ToSet(toStore) : i < j
       /\ LatestOf(Stored)
  /\ writer = "ended" => toStore = << >>

(* A step that touches neither the writer nor what it has.                 *)
LEMMA InOrderStays ==
  ASSUME InOrder, UNCHANGED <<toStore, contacts>>,
         \/ writer' = writer /\ received' = received
         \/ {writer, writer'} \subseteq {"spawned", "run"}
         \/ writer' = "failed"
  PROVE  InOrder'
BY DEF InOrder, Stored, LatestOf, Ascending

(* The order in which the writer goes through the contacts.                *)
LEMMA SortKeeps ==
  ASSUME DInv, InOrder, SortContacts
  PROVE  InOrder'
<1>1. /\ writer' = "store" /\ toStore' \in Sorted
      /\ received' = received /\ contacts' = [c \in Contact |-> 0]
  BY DEF SortContacts, dbVars, InOrder
<1> DEFINE n == Len(received)
           S == ToSet(received)
<1>2. n \in Nat /\ DOMAIN received = 1..n /\ S \subseteq TxIndex
  BY LenProperties, ElementOfSeq DEF DInv, Types, ToSet
<1>3. PICK s \in [1..n -> S] : /\ toStore' = s /\ ToSet(s) = S
                               /\ \A j, k \in 1..n : j < k => s[j] < s[k]
  BY <1>1, <1>2 DEF Sorted
<1> HIDE DEF n, S
<1>4. s \in Seq(TxIndex) /\ Len(s) = n
  <2>1. s = [k \in 1..n |-> s[k]] /\ \A k \in 1..n : s[k] \in TxIndex
    BY <1>2, <1>3
  <2>2. s \in Seq(TxIndex)
    BY <1>2, <2>1, IsASeq
  <2> QED BY <1>2, <1>3, <2>2, LenProperties
<1>5. Stored' = {}
  BY <1>1, <1>3 DEF Stored, S
<1>6. contacts' \in [Contact -> Nat] /\ LatestOf(Stored)'
  BY <1>1, <1>5 DEF LatestOf
<1> QED BY <1>1, <1>3, <1>4, <1>5, <1>6 DEF InOrder, Ascending, S

(* The contacts of one more transaction: it is later than all before it.   *)
LEMMA StoreKeeps ==
  ASSUME DInv, InOrder, StoreContacts
  PROVE  InOrder'
<1>1. PICK i : i = Head(toStore)
  OBVIOUS
<1>2. /\ writer = "store" /\ toStore # << >> /\ writer' = writer /\ received' = received
      /\ toStore' = Tail(toStore)
      /\ contacts' = [c \in Contact |-> IF c \in ContactsOf[i] THEN i ELSE contacts[c]]
  BY <1>1 DEF StoreContacts, Replace
<1>3. /\ contacts \in [Contact -> Nat]
      /\ toStore \in Seq(TxIndex) /\ Ascending(toStore)
      /\ ToSet(toStore) \subseteq ToSet(received)
      /\ \A j \in Stored : \A k \in ToSet(toStore) : j < k
      /\ LatestOf(Stored)
  BY <1>2 DEF InOrder
<1> DEFINE t == toStore
           r == Tail(toStore)
           l == Len(t)
<1>4. /\ r \in Seq(TxIndex) /\ l \in Nat \ {0} /\ Len(r) = l - 1 /\ i = t[1]
      /\ \A k \in 1..l - 1 : r[k] = t[k + 1]
  BY <1>1, <1>2, <1>3, HeadTailProperties, EmptySeq, LenProperties
<1>5. ToSet(t) = ToSet(r) \cup {i} /\ i \in TxIndex
  BY <1>1, <1>2, <1>3, TailElements, HeadTailProperties
<1>6. DOMAIN r = 1..l - 1
  BY <1>4, LenProperties
<1> HIDE DEF t, r, l
<1>7. \A j \in ToSet(r) : i < j
  <2> SUFFICES ASSUME NEW k \in 1..l - 1 PROVE i < r[k]
    BY <1>6 DEF ToSet
  <2>1. 1 \in 1..l /\ k + 1 \in 1..l /\ 1 < k + 1
    BY <1>4
  <2> QED BY <1>3, <1>4, <2>1 DEF Ascending, t, l
<1>8. Ascending(r)
  <2> SUFFICES ASSUME NEW j \in 1..l - 1, NEW k \in 1..l - 1, j < k PROVE r[j] < r[k]
    BY <1>4 DEF Ascending
  <2>1. j + 1 \in 1..l /\ k + 1 \in 1..l /\ j + 1 < k + 1
    BY <1>4
  <2> QED BY <1>3, <1>4, <2>1 DEF Ascending, t, l
<1>9. i \in Nat /\ i \notin ToSet(r)
  <2>1. i \in Nat
    BY <1>5 DEF TxIndex
  <2> QED BY <1>7, <2>1
<1>10. toStore' = r /\ Stored' = Stored \cup {i} /\ i \in ToSet(t)
  <2>1. toStore' = r
    BY <1>2 DEF r
  <2> QED BY <1>2, <1>3, <1>5, <1>9, <2>1 DEF Stored, t
<1>11. \A j \in Stored' : \A k \in ToSet(r) : j < k
  BY <1>3, <1>5, <1>7, <1>10 DEF t
<1>12. contacts' \in [Contact -> Nat]
  BY <1>2, <1>3, <1>9
<1>13. LatestOf(Stored)'
  <2> SUFFICES ASSUME NEW c \in Contact
               PROVE  /\ \A j \in Stored' : c \in ContactsOf[j] => j <= contacts'[c]
                      /\ contacts'[c] # 0 => contacts'[c] \in Stored' /\ c \in ContactsOf[contacts'[c]]
    BY DEF LatestOf
  <2>1. \A j \in Stored : j < i /\ j \in Nat
    <3>1. ToSet(received) \subseteq TxIndex /\ Stored \subseteq ToSet(received)
      BY LenProperties, ElementOfSeq DEF DInv, Types, Stored, ToSet
    <3> QED BY <1>3, <1>10, <3>1 DEF t, TxIndex
  <2>2. CASE c \in ContactsOf[i]
    <3>1. contacts'[c] = i
      BY <1>2, <2>2
    <3> QED BY <1>9, <1>10, <2>1, <2>2, <3>1
  <2>3. CASE c \notin ContactsOf[i]
    <3>1. contacts'[c] = contacts[c]
      BY <1>2, <2>3
    <3> QED BY <1>3, <1>10, <2>3, <3>1 DEF LatestOf
  <2> QED BY <2>2, <2>3
<1>14. ToSet(r) \subseteq ToSet(received)
  BY <1>3, <1>5 DEF t
<1> QED BY <1>2, <1>4, <1>8, <1>10, <1>11, <1>12, <1>13, <1>14 DEF InOrder

LEMMA InOrderNext == DInv /\ InOrder /\ [Next]_vars => InOrder'
<1> SUFFICES ASSUME DInv, InOrder, [Next]_vars PROVE InOrder'
  OBVIOUS
<1>1. CASE UNCHANGED vars
  <2>1. UNCHANGED <<toStore, contacts>> /\ writer' = writer /\ received' = received
    BY <1>1 DEF vars
  <2> QED BY <2>1, InOrderStays
<1>2. CASE \/ \E i \in TxIndex : Answer(i) \/ Send(i) \/ SendResumes(i) \/ SkipFailed(i)
           \/ SendPanic \/ Yield \/ Resume \/ Join
  <2>1. UNCHANGED <<toStore, contacts>> /\ writer' = writer /\ received' = received
    BY <1>2 DEF Answer, Send, SendResumes, SkipFailed, SendPanic, Yield, Resume, Join, dbVars
  <2> QED BY <2>1, InOrderStays
<1>3. CASE StartWriter \/ Receive \/ ReceiveFail
  <2>1. /\ UNCHANGED <<toStore, contacts>>
        /\ {writer, writer'} \subseteq {"spawned", "run"} \/ writer' = "failed"
    BY <1>3 DEF StartWriter, Receive, ReceiveFail, dbVars
  <2> QED BY <2>1, InOrderStays
<1>4. CASE SortContacts
  BY <1>4, SortKeeps
<1>5. CASE StoreContacts
  BY <1>5, StoreKeeps
<1>6. CASE StoreContactsFail
  BY <1>6 DEF StoreContactsFail, InOrder
<1>7. CASE EndWriter
  <2>1. /\ writer = "store" /\ writer' = "ended" /\ toStore = << >>
        /\ UNCHANGED <<toStore, contacts, received>>
    BY <1>7 DEF EndWriter, dbVars
  <2> QED BY <2>1 DEF InOrder, Stored, LatestOf, Ascending
<1> QED BY <1>1, <1>2, <1>3, <1>4, <1>5, <1>6, <1>7 DEF Next, Caller, Writer

(* When the call returns Ok, every contact is that of the latest           *)
(* transaction that carries it, in whatever order the answers have come    *)
(* (transaction.rs:255-258).                                               *)
THEOREM ContactsAreLatest == Spec => []ContactsLatest
<1>1. DInv /\ InOrder => ContactsLatest
  <2> SUFFICES ASSUME DInv, InOrder, caller = "ok"
               PROVE  LatestOf(Answered)
    BY DEF ContactsLatest, LatestOf
  <2>1. writer = "ended" /\ chan = << >> /\ toStore = << >>
    BY DEF DInv, Over, InOrder
  <2>2. ToSet(chan) = {} /\ ToSet(toStore) = {}
    BY <2>1 DEF ToSet
  <2>3. Stored = Answered
    BY <2>1, <2>2 DEF DInv, Delivered, Stored
  <2> QED BY <2>1, <2>3 DEF InOrder
<1>2. Init => InOrder
  BY DEF Init, InOrder
<1> QED BY <1>1, <1>2, DInvInit, DInvNext, InOrderNext, PTL DEF Spec
=============================================================================
