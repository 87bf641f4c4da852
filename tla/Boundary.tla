------------------------------ MODULE Boundary ------------------------------
(***************************************************************************)
(* The boundaries of src/main.c: five pairs of integers the polling        *)
(* threads compare readings with.  A client sets one boundary of each pair *)
(* (sscanf() in receive_boundary_data()), boundary_update() derives the    *)
(* other one.  Any number of socket threads may be doing so at a time, and *)
(* nothing serialises them; one step here is one access to a g_ variable.  *)
(***************************************************************************)
EXTENDS Integers, Sequences

CONSTANTS
  Clients,         \* socket threads in receive_boundary_data()
  Messages,        \* the numbers sscanf() gets out of what clients send
  MinInt, MaxInt   \* the range of int

Pair == {"fan", "humidifier", "dryer", "cooler", "led"}

\* The pairs whose upper boundary is the derived one, and the distances.
Rising == {"humidifier", "dryer", "led"}
Bias(p) == IF p = "led" THEN 200 ELSE 5

\* The orders in which sscanf() and boundary_update() go through the pairs.
ScanOrder == <<"humidifier", "fan", "dryer", "cooler", "led">>
UpdateOrderShort == <<"fan", "humidifier", "dryer", "led">>   \* mutant: one left out
UpdateOrder == <<"fan", "humidifier", "dryer", "cooler", "led">>

Number == MinInt..MaxInt

ASSUME NumberAssumption ==
  MinInt \in Int /\ MaxInt \in Int /\ MinInt <= -1000 /\ MaxInt >= 1000
ASSUME MessagesAssumption ==
  \A m \in Messages : m \in Seq(Number) /\ Len(m) <= Len(ScanOrder)

VARIABLES
  set,      \* pair -> the boundary clients set
  derived,  \* pair -> the boundary boundary_update() derives
  stage,    \* client -> where its thread stands
  k,        \* client -> index of the pair it is at
  msg,      \* client -> the numbers of its message
  loaded,   \* client -> the boundary it has loaded to derive the other from
  torn      \* history: the last update that began overlapped another

boundaryVars == <<set, derived, stage, k, msg, loaded, torn>>

(* Type invariant.  Boundaries are ints, and a thread stands at a number its *)
(* message has and at a pair of its order.                                   *)
BoundaryTypeOK ==
  /\ set \in [Pair -> Number]
  /\ derived \in [Pair -> Number]
  /\ stage \in [Clients -> {"idle", "scan", "load", "store"}]
  /\ k \in [Clients -> 1..5]
  /\ msg \in [Clients -> Messages \cup {<<>>}]
  /\ \A c \in Clients : stage[c] = "scan" => k[c] <= Len(msg[c])
  /\ loaded \in [Clients -> Number]
  /\ torn \in BOOLEAN

\* Mutant: int has no limits.
WrapNever(x) == x

\* A sum that leaves the range of int wraps around.
Wrap(x) == IF x > MaxInt THEN x - (MaxInt - MinInt + 1)
           ELSE IF x < MinInt THEN x + (MaxInt - MinInt + 1) ELSE x

\* Mutant: every derived boundary lies above the one that is set.
DeriveAbove(p, x) == Wrap(x + Bias(p))

\* The other boundary of p when x is the one that is set.
Derive(p, x) == Wrap(IF p \in Rising THEN x + Bias(p) ELSE x - Bias(p))

\* boundary_init().
InitialSet == [p \in Pair |-> CASE p = "fan" -> 45 [] p = "humidifier" -> 30
                                [] p = "dryer" -> 20 [] p = "cooler" -> 35
                                [] OTHER -> 500]

BoundaryInit ==
  /\ set = InitialSet
  /\ derived = [p \in Pair |-> Derive(p, InitialSet[p])]
  /\ stage = [c \in Clients |-> "idle"]
  /\ k = [c \in Clients |-> 1]
  /\ msg = [c \in Clients |-> <<>>]
  /\ loaded = [c \in Clients |-> 0]
  /\ torn = FALSE

Idle == \A c \in Clients : stage[c] = "idle"

At(c, s, n) == /\ stage' = [stage EXCEPT ![c] = s]
               /\ k' = [k EXCEPT ![c] = n]

\* network_recv() returns; sscanf() converts as many numbers as there are.
Recv(c) ==
  /\ stage[c] = "idle"
  /\ \E m \in Messages :
       /\ msg' = [msg EXCEPT ![c] = m]
       /\ At(c, IF m = <<>> THEN "load" ELSE "scan", 1)
  /\ torn' = ~Idle
  /\ UNCHANGED <<set, derived, loaded>>

\* sscanf() stores its next number, the last one it has or not.
Scan(c) ==
  /\ stage[c] = "scan"
  /\ set' = [set EXCEPT ![ScanOrder[k[c]]] = msg[c][k[c]]]
  /\ IF k[c] < Len(msg[c]) THEN At(c, "scan", k[c] + 1) ELSE At(c, "load", 1)
  /\ UNCHANGED <<derived, msg, loaded, torn>>

\* One assignment of boundary_update() reads the boundary that is set ...
LoadSet(c) ==
  /\ stage[c] = "load"
  /\ loaded' = [loaded EXCEPT ![c] = set[UpdateOrder[k[c]]]]
  /\ At(c, "store", k[c])
  /\ UNCHANGED <<set, derived, msg, torn>>

\* ... and writes the derived one.
StoreDerived(c) ==
  /\ stage[c] = "store"
  /\ derived' = [derived EXCEPT ![UpdateOrder[k[c]]] =
                                  Derive(UpdateOrder[k[c]], loaded[c])]
  /\ IF k[c] < Len(UpdateOrder) THEN At(c, "load", k[c] + 1) ELSE At(c, "idle", 1)
  /\ UNCHANGED <<set, msg, loaded, torn>>

BoundaryNext ==
  \E c \in Clients : Recv(c) \/ Scan(c) \/ LoadSet(c) \/ StoreDerived(c)

BoundarySpec == BoundaryInit /\ [][BoundaryNext]_boundaryVars

-----------------------------------------------------------------------------
Upper(p) == IF p \in Rising THEN derived[p] ELSE set[p]
Under(p) == IF p \in Rising THEN set[p] ELSE derived[p]

\* The boundary set is not so close to the limits of int that the other wraps.
Sensible(p) == set[p] \in (MinInt + 200)..(MaxInt - 200)

(* Safety.  Between updates no reading is beyond both boundaries of a pair,  *)
(* which would make its two rules undo each other at every reading; only an  *)
(* overlapped update can leave it so, and the next one that runs alone       *)
(* repairs all pairs, however few numbers its client sends.                  *)
NeverBeyondBoth ==
  Idle /\ ~torn => \A p \in Pair : Sensible(p) => Under(p) < Upper(p)

-----------------------------------------------------------------------------
(* The inductive invariant behind it.                                        *)

Agrees(p) == derived[p] = Derive(p, set[p])

(* An update that nothing overlaps is the only one, has loaded what is set,  *)
(* and the pairs it has passed agree.                                        *)
BoundaryInv ==
  /\ BoundaryTypeOK
  /\ ~torn =>
       /\ \A c, d \in Clients : stage[c] # "idle" /\ stage[d] # "idle" => c = d
       /\ \A c \in Clients :
            /\ stage[c] = "store" => loaded[c] = set[UpdateOrder[k[c]]]
            /\ stage[c] \in {"load", "store"}
                 => \A j \in 1..(k[c] - 1) : Agrees(UpdateOrder[j])
       /\ Idle => \A p \in Pair : Agrees(p)
=============================================================================
