--------------------------- MODULE BoundaryProofs ---------------------------
(***************************************************************************)
(* The bands of the boundaries are open whenever no update is in progress  *)
(* and the last one was not overlapped: for any number of clients, any     *)
(* messages and any range of int.                                          *)
(***************************************************************************)
EXTENDS Boundary, TLAPS

\* Wrapping keeps sums of an int and a bias in range, and leaves ints alone.
LEMMA DeriveTyped ==
  ASSUME NEW p \in Pair, NEW x \in Number
  PROVE  Derive(p, x) \in Number
BY NumberAssumption DEF Derive, Wrap, Bias, Number

\* Far from the limits the derived boundary lies on its side of the one set.
LEMMA DeriveApart ==
  ASSUME NEW p \in Pair, NEW x \in (MinInt + 200)..(MaxInt - 200)
  PROVE  IF p \in Rising THEN x < Derive(p, x) ELSE Derive(p, x) < x
BY NumberAssumption DEF Derive, Wrap, Bias

\* Both orders go through pairs; boundary_update() leaves none out and
\* comes to none twice.
LEMMA Orders ==
  /\ Len(ScanOrder) = 5 /\ Len(UpdateOrder) = 5
  /\ \A i \in 1..5 : ScanOrder[i] \in Pair /\ UpdateOrder[i] \in Pair
  /\ \A p \in Pair : \E i \in 1..5 : UpdateOrder[i] = p
  /\ \A i, j \in 1..5 : UpdateOrder[i] = UpdateOrder[j] => i = j
<1>1. \A i \in 1..5 : i = 1 \/ i = 2 \/ i = 3 \/ i = 4 \/ i = 5
  OBVIOUS
<1>2. /\ UpdateOrder[1] = "fan" /\ UpdateOrder[2] = "humidifier"
      /\ UpdateOrder[3] = "dryer" /\ UpdateOrder[4] = "cooler" /\ UpdateOrder[5] = "led"
  BY DEF UpdateOrder
<1>3. \A i \in 1..5 : ScanOrder[i] \in Pair
  BY <1>1 DEF ScanOrder, Pair
<1>4. Len(ScanOrder) = 5 /\ Len(UpdateOrder) = 5
  BY DEF ScanOrder, UpdateOrder
<1>5. \A i \in 1..5 : UpdateOrder[i] \in Pair
  BY <1>1, <1>2 DEF Pair
<1>6. \A p \in Pair : \E i \in 1..5 : UpdateOrder[i] = p
  BY <1>2 DEF Pair
<1>7. \A i, j \in 1..5 : UpdateOrder[i] = UpdateOrder[j] => i = j
  BY <1>1, <1>2
<1> QED  BY <1>3, <1>4, <1>5, <1>6, <1>7

\* A number of a message is an int.
LEMMA MessageTyped ==
  ASSUME NEW m \in Messages, NEW i \in 1..Len(m)
  PROVE  m[i] \in Number /\ Len(m) \in 0..5
<1>1. m \in Seq(Number) /\ Len(m) <= 5
  BY MessagesAssumption, Orders
<1>2. m[i] \in Number
  BY <1>1
<1>3. Len(m) \in 0..5
  <2>1. Len(m) \in Nat
    BY <1>1
  <2>2. Len(m) <= 5
    BY <1>1
  <2>3. \A n \in Nat : n <= 5 => n \in 0..5
    OBVIOUS
  <2> QED  BY <2>1, <2>2, <2>3
<1> QED  BY <1>2, <1>3

LEMMA BoundaryInitInv == BoundaryInit => BoundaryInv
<1> SUFFICES ASSUME BoundaryInit  PROVE BoundaryInv
  OBVIOUS
<1>1. InitialSet \in [Pair -> Number]
  BY NumberAssumption DEF InitialSet, Number
<1>2. set \in [Pair -> Number] /\ derived \in [Pair -> Number]
  BY <1>1, DeriveTyped DEF BoundaryInit
<1>3. 0 \in Number
  BY NumberAssumption DEF Number
<1>4. BoundaryTypeOK
  <2>1. stage \in [Clients -> {"idle", "scan", "load", "store"}]
    BY DEF BoundaryInit
  <2>2. k \in [Clients -> 1..5] /\ loaded \in [Clients -> Number]
    BY <1>3 DEF BoundaryInit
  <2>3. msg \in [Clients -> Messages \cup {<<>>}]
    BY DEF BoundaryInit
  <2> QED  BY <1>2, <2>1, <2>2, <2>3 DEF BoundaryInit, BoundaryTypeOK
<1>5. \A p \in Pair : Agrees(p)
  BY DEF BoundaryInit, Agrees
<1> QED  BY <1>4, <1>5 DEF BoundaryInit, BoundaryInv

LEMMA BoundaryStepInv == BoundaryInv /\ [BoundaryNext]_boundaryVars => BoundaryInv'
<1> SUFFICES ASSUME BoundaryInv, [BoundaryNext]_boundaryVars  PROVE BoundaryInv'
  OBVIOUS
<1> USE DEF BoundaryInv, Idle, At
<1>1. ASSUME NEW c \in Clients, Recv(c)  PROVE BoundaryInv'
  <2>1. BoundaryTypeOK'
    <3> PICK m \in Messages : /\ msg' = [msg EXCEPT ![c] = m]
                              /\ At(c, IF m = <<>> THEN "load" ELSE "scan", 1)
      BY <1>1 DEF Recv
    <3>1. m # <<>> => 1 <= Len(m)
      BY MessagesAssumption
    <3> QED  BY <1>1, <3>1 DEF Recv, BoundaryTypeOK
  <2>2. ASSUME ~torn'  PROVE \A d \in Clients : stage[d] = "idle"
    BY <1>1, <2>2 DEF Recv
  <2>3. stage'[c] \in {"scan", "load"} /\ k'[c] = 1
    BY <1>1 DEF Recv, BoundaryTypeOK
  <2>4. \A d \in Clients : d # c => stage'[d] = stage[d]
    BY <1>1 DEF Recv, BoundaryTypeOK
  <2> QED  BY <2>1, <2>2, <2>3, <2>4
<1>2. ASSUME NEW c \in Clients, Scan(c)  PROVE BoundaryInv'
  <2>1. msg[c] \in Messages /\ k[c] \in 1..Len(msg[c])
    BY <1>2 DEF Scan, BoundaryTypeOK
  <2>2. msg[c][k[c]] \in Number /\ Len(msg[c]) \in 0..5
    BY <2>1, MessageTyped
  <2>3. ScanOrder[k[c]] \in Pair
    BY <2>1, <2>2, Orders
  <2>4. BoundaryTypeOK'
    <3>1. set' \in [Pair -> Number]
      BY <1>2, <2>2, <2>3 DEF Scan, BoundaryTypeOK
    <3>0. k[c] < Len(msg[c]) => k[c] + 1 \in 1..5
      <4>1. \A i, n \in 0..5 : i < n => i + 1 \in 1..5
        OBVIOUS
      <4>2. k[c] \in 0..5
        BY DEF BoundaryTypeOK
      <4> QED  BY <2>2, <4>1, <4>2
    <3>2. /\ stage' \in [Clients -> {"idle", "scan", "load", "store"}]
          /\ k' \in [Clients -> 1..5]
      <4>1. PICK s \in {"scan", "load"}, n \in 1..5 : At(c, s, n)
        BY <1>2, <3>0 DEF Scan
      <4> QED  BY <4>1 DEF BoundaryTypeOK
    <3>3. \A d \in Clients : stage'[d] = "scan" => k'[d] <= Len(msg[d])
      <4>1. \A d \in Clients : d # c => stage'[d] = stage[d] /\ k'[d] = k[d]
        BY <1>2 DEF Scan, BoundaryTypeOK
      <4>2. stage'[c] = "scan" => k'[c] = k[c] + 1 /\ k[c] < Len(msg[c])
        BY <1>2 DEF Scan, BoundaryTypeOK
      <4>3. stage'[c] = "scan" => k'[c] <= Len(msg[c])
        BY <2>1, <2>2, <4>2
      <4> QED  BY <4>1, <4>3 DEF BoundaryTypeOK
    <3> QED  BY <1>2, <3>1, <3>2, <3>3 DEF Scan, BoundaryTypeOK
  <2>5. /\ torn' = torn
        /\ stage'[c] = "scan" \/ (stage'[c] = "load" /\ k'[c] = 1)
        /\ \A d \in Clients : d # c => stage'[d] = stage[d]
    BY <1>2 DEF Scan, BoundaryTypeOK
  <2> QED  BY <1>2, <2>4, <2>5 DEF Scan
<1>3. ASSUME NEW c \in Clients, LoadSet(c)  PROVE BoundaryInv'
  <2>1. UpdateOrder[k[c]] \in Pair
    BY Orders DEF BoundaryTypeOK
  <2>2. BoundaryTypeOK'
    BY <1>3, <2>1 DEF LoadSet, BoundaryTypeOK
  <2>3. /\ torn' = torn /\ set' = set /\ derived' = derived /\ k' = k
        /\ stage'[c] = "store" /\ loaded'[c] = set[UpdateOrder[k[c]]]
        /\ \A d \in Clients : d # c => stage'[d] = stage[d]
    BY <1>3 DEF LoadSet, BoundaryTypeOK
  <2> QED  BY <1>3, <2>2, <2>3 DEF LoadSet, Agrees
<1>4. ASSUME NEW c \in Clients, StoreDerived(c)  PROVE BoundaryInv'
  <2> DEFINE p == UpdateOrder[k[c]]
  <2>1. p \in Pair /\ Len(UpdateOrder) = 5 /\ k[c] \in 1..5
    BY Orders DEF BoundaryTypeOK
  <2>2. Derive(p, loaded[c]) \in Number
    BY <2>1, DeriveTyped DEF BoundaryTypeOK
  <2>3. BoundaryTypeOK'
    <3>1. derived' \in [Pair -> Number]
      BY <1>4, <2>1, <2>2 DEF StoreDerived, BoundaryTypeOK
    <3>0. k[c] < Len(UpdateOrder) => k[c] + 1 \in 1..5
      BY <2>1
    <3>2. /\ stage' \in [Clients -> {"idle", "scan", "load", "store"}]
          /\ k' \in [Clients -> 1..5]
      <4>1. PICK s \in {"load", "idle"}, n \in 1..5 : At(c, s, n)
        BY <1>4, <3>0 DEF StoreDerived
      <4> QED  BY <4>1 DEF BoundaryTypeOK
    <3>3. \A d \in Clients : stage'[d] = "scan" => k'[d] <= Len(msg[d])
      BY <1>4, <2>1 DEF StoreDerived, BoundaryTypeOK
    <3> QED  BY <1>4, <3>1, <3>2, <3>3 DEF StoreDerived, BoundaryTypeOK
  <2>4. /\ torn' = torn /\ set' = set
        /\ \A d \in Clients : d # c => stage'[d] = stage[d]
        /\ IF k[c] < 5 THEN stage'[c] = "load" /\ k'[c] = k[c] + 1 ELSE stage'[c] = "idle"
    BY <1>4, <2>1 DEF StoreDerived, BoundaryTypeOK
  <2>5. ASSUME ~torn'  PROVE \A j \in 1..k[c] : Agrees(UpdateOrder[j])'
    <3>1. /\ loaded[c] = set[p]
          /\ \A j \in 1..(k[c] - 1) : Agrees(UpdateOrder[j])
      BY <1>4, <2>5, <2>4 DEF StoreDerived
    <3>2. /\ derived'[p] = Derive(p, set[p])
          /\ \A q \in Pair : q # p => derived'[q] = derived[q]
      BY <1>4, <2>1, <3>1 DEF StoreDerived, BoundaryTypeOK
    <3>3. \A j \in 1..(k[c] - 1) : UpdateOrder[j] \in Pair
      BY <2>1, Orders
    <3>4. \A j \in 1..k[c] : j = k[c] \/ j \in 1..(k[c] - 1)
      BY <2>1
    <3> QED  BY <2>4, <3>1, <3>2, <3>3, <3>4 DEF Agrees
  <2>6. ASSUME ~torn'
        PROVE  \A d, e \in Clients : stage'[d] # "idle" /\ stage'[e] # "idle" => d = e
    BY <1>4, <2>4, <2>6 DEF StoreDerived
  <2>7. ASSUME ~torn', NEW d \in Clients, stage'[d] # "idle"
        PROVE  d = c /\ stage'[d] = "load" /\ k'[d] = k[c] + 1
    BY <1>4, <2>1, <2>4, <2>7 DEF StoreDerived
  <2>8. ASSUME ~torn', Idle'  PROVE \A q \in Pair : Agrees(q)'
    <3>1. k[c] = 5
      BY <2>1, <2>4, <2>8
    <3> QED  BY <2>5, <2>8, <3>1, Orders
  <2>9. ASSUME ~torn', NEW d \in Clients
        PROVE  /\ stage'[d] # "store"
               /\ stage'[d] = "load" => \A j \in 1..(k'[d] - 1) : Agrees(UpdateOrder[j])'
    <3>1. CASE stage'[d] = "idle"
      BY <3>1
    <3>2. CASE stage'[d] # "idle"
      <4>1. stage'[d] = "load" /\ k'[d] - 1 = k[c]
        BY <2>1, <2>7, <2>9, <3>2
      <4> QED  BY <2>5, <2>9, <4>1
    <3> QED  BY <3>1, <3>2
  <2> QED  BY <2>3, <2>6, <2>8, <2>9
<1>5. ASSUME UNCHANGED boundaryVars  PROVE BoundaryInv'
  BY <1>5 DEF boundaryVars, BoundaryTypeOK, Agrees
<1> QED
  BY <1>1, <1>2, <1>3, <1>4, <1>5 DEF BoundaryNext

(* An update that runs alone has loaded what is set, and the pairs it has    *)
(* passed agree, also after updates that overlapped.                         *)
THEOREM BoundaryInvariant == BoundarySpec => []BoundaryInv
BY BoundaryInitInv, BoundaryStepInv, PTL DEF BoundarySpec

(* Boundaries are ints, and no thread reads past its message or an order.    *)
THEOREM BoundaryTypeCorrect == BoundarySpec => []BoundaryTypeOK
<1>1. BoundaryInv => BoundaryTypeOK  BY DEF BoundaryInv
<1> QED  BY <1>1, BoundaryInvariant, PTL

(* No reading is beyond both boundaries of a pair once an update that ran    *)
(* alone has ended, whatever earlier updates have left behind.               *)
THEOREM BandsOpen == BoundarySpec => []NeverBeyondBoth
<1>1. ASSUME BoundaryInv, Idle, ~torn, NEW p \in Pair, Sensible(p)
      PROVE  Under(p) < Upper(p)
  <2>1. derived[p] = Derive(p, set[p])
    BY <1>1 DEF BoundaryInv, Agrees
  <2>2. IF p \in Rising THEN set[p] < Derive(p, set[p]) ELSE Derive(p, set[p]) < set[p]
    BY <1>1, DeriveApart DEF Sensible
  <2> QED  BY <2>1, <2>2 DEF Under, Upper
<1>2. BoundaryInv => NeverBeyondBoth
  BY <1>1 DEF NeverBeyondBoth
<1> QED  BY <1>2, BoundaryInvariant, PTL
=============================================================================
