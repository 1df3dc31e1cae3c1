---------------------------- MODULE ClusterProofs ----------------------------
(***************************************************************************)
(* What the clusters are given: the workflows of the executions that are   *)
(* launched, and the resources of the namespaces they run in.              *)
(*                                                                         *)
(* First the proofs about ExecutionLaunch: launches that fail anywhere and *)
(* are repeated in any number leave rows, blobs and workflows that agree,  *)
(* and relaunches of any depth keep the inputs, for every set of names,    *)
(* clusters, requests and goroutines.  Then those about ClusterResource.   *)
(* The two components have their own constants, variables and              *)
(* specifications, Spec of ExecutionLaunch and ClusterSpec of              *)
(* ClusterResource.                                                        *)
(***************************************************************************)
EXTENDS ExecutionLaunch, ClusterResource, TLAPS

\* Whoever holds a launch under a name, a request or the row, holds the one
\* launch asked for, or there are several.
HandlersAsk ==
    \A h \in Handlers : handler[h] # Idle =>
        asked[handler[h].name] \in {handler[h].launch, Several}

RowsAsk ==
    \A n \in Names : row[n] # None => asked[n] \in {row[n].launch, Several}

\* So do the inputs in the blob store and the workflows in the clusters.
BlobsAsk ==
    \A n \in Names : Unambiguous(n) /\ blob[n].inputs # None =>
        asked[n] \in Launch /\ blob[n].inputs = executionInputs(asked[n])

CrdsAsk ==
    \A c \in Clusters, n \in Names : Unambiguous(n) /\ crd[c][n] # None =>
        asked[n] \in Launch /\ crd[c][n] = FlyteWorkflow(asked[n])

\* What the steps behind a request have left.
Progress ==
    \A h \in Handlers :
        LET r == handler[h]
        IN  /\ r.pc \in {"userInputs", "execute", "create"}
                 => blob[r.name].inputs # None
            /\ r.pc \in {"execute", "create"} /\ Unambiguous(r.name)
                 => blob[r.name].userInputs = r.launch.args
            /\ r.pc = "create" => r.cluster \in launched[r.name]

\* What the request that inserted a row has left.
Stored ==
    \A n \in Names : row[n] # None =>
        /\ row[n].cluster \in launched[n]
        /\ row[n].offloaded => /\ blob[n].inputs # None
                               /\ Unambiguous(n) => blob[n].userInputs = row[n].launch.args

\* A launch that refers to a source has its inputs.
Sourced(launch) ==
    launch.mode # "MANUAL" =>
        /\ launch.source \in Names
        /\ row[launch.source] # None
        /\ Unambiguous(launch.source)
             /\ (row[launch.source].offloaded \/ launch.mode = "RELAUNCH")
               => launch.args = row[launch.source].launch.args

Sources ==
    /\ \A h \in Handlers : handler[h] # Idle => Sourced(handler[h].launch)
    /\ \A n \in Names : row[n] # None => Sourced(row[n].launch)

IInv == /\ TypeOK /\ HandlersAsk /\ RowsAsk /\ BlobsAsk /\ CrdsAsk
        /\ Progress /\ Stored /\ Sources

-----------------------------------------------------------------------------

\* A request that is not idle, and where it stands.
LEMMA RequestType ==
    ASSUME TypeOK, NEW h \in Handlers
    PROVE  /\ handler[h] # Idle => handler[h] \in Request
           /\ handler[h].pc # "idle" => handler[h] # Idle
           /\ handler[h] = Idle => handler[h].pc = "idle"
BY DEF TypeOK, Request, Idle

\* Several launches are not one.
LEMMA SeveralIsNoLaunch == Several \notin Launch
BY DEF Several, Launch, Modes

\* A step that adds no row and makes no name ambiguous keeps what is known
\* of the sources.
LEMMA SourcedKept ==
    ASSUME NEW launch \in Launch, Sourced(launch),
           \A n \in Names : row[n] # None => row'[n] = row[n],
           \A n \in Names : asked[n] = Several => asked'[n] = Several
    PROVE  Sourced(launch)'
BY DEF Sourced, Unambiguous

\* Nothing has been launched but old executions.
LEMMA InitInv == Init => IInv
<1> SUFFICES ASSUME Init PROVE IInv
  OBVIOUS
<1>1. \A n \in Names : row[n] # None =>
        /\ row[n] \in Row /\ row[n].offloaded = FALSE
        /\ row[n].launch.mode = "MANUAL"
        /\ row[n].launch \in Launch /\ row[n].cluster \in Clusters
  <2>1. ASSUME NEW n \in Names, row[n] # None
        PROVE  \E a \in Args, c \in Clusters : row[n] = OldRow(a, c)
    BY <2>1 DEF Init
  <2>2. ASSUME NEW n \in Names, row[n] # None
        PROVE  /\ row[n] \in Row /\ row[n].offloaded = FALSE
               /\ row[n].launch.mode = "MANUAL"
               /\ row[n].launch \in Launch /\ row[n].cluster \in Clusters
    <3>1. PICK a \in Args, c \in Clusters : row[n] = OldRow(a, c)
      BY <2>1, <2>2
    <3>2. QED
      BY <3>1 DEF OldRow, Row, Launch, Modes
  <2>3. QED
    BY <2>2, Zenon
<1>2. row \in [Names -> Row \cup {None}]
  BY <1>1 DEF Init
<1>3. TypeOK
  BY <1>1, <1>2, NoneAssumption DEF Init, TypeOK, LiteralMap
<1>4. HandlersAsk /\ RowsAsk
  BY <1>1 DEF Init, HandlersAsk, RowsAsk
<1>5. BlobsAsk /\ CrdsAsk /\ Progress
  BY Zenon DEF Init, BlobsAsk, CrdsAsk, Progress, Idle
<1>6. Stored /\ Sources
  BY <1>1 DEF Init, Stored, Sources, Sourced
<1>7. QED
  BY <1>3, <1>4, <1>5, <1>6 DEF IInv

\* A request starts.
LEMMA StartInv ==
    ASSUME IInv, NEW h \in Handlers, NEW n \in Names, NEW launch \in Launch,
           Sourced(launch), Start(h, n, launch)
    PROVE  IInv'
<1> DEFINE request == [pc |-> "inputs", name |-> n, launch |-> launch,
                       cluster |-> None]
<1>1. /\ handler' = [handler EXCEPT ![h] = request]
      /\ asked' = [asked EXCEPT ![n] = IF @ \in {None, launch} THEN launch
                                       ELSE Several]
      /\ UNCHANGED <<row, blob, crd, launched>>
  BY DEF Start
<1>2. request \in Request /\ request # Idle /\ request.pc = "inputs"
      /\ request.name = n /\ request.launch = launch
  BY DEF Request, Idle
<1> HIDE DEF request
<1>3. \A g \in Handlers : handler'[g] = IF g = h THEN request ELSE handler[g]
  BY <1>1 DEF IInv, TypeOK
<1>4. \A m \in Names : asked'[m] = IF m # n THEN asked[m]
                                    ELSE IF asked[m] \in {None, launch} THEN launch
                                    ELSE Several
  BY <1>1 DEF IInv, TypeOK
<1>5. TypeOK'
  <2>1. handler' \in [Handlers -> Request \cup {Idle}]
    BY <1>1, <1>2 DEF IInv, TypeOK
  <2>2. asked' \in [Names -> Launch \cup {None, Several}]
    BY <1>1 DEF IInv, TypeOK
  <2>3. QED
    BY <1>1, <2>1, <2>2 DEF IInv, TypeOK
<1>6. \A m \in Names : /\ asked[m] # None /\ asked'[m] # Several => asked'[m] = asked[m]
                       /\ asked[m] = Several => asked'[m] = Several
  BY <1>4, SeveralIsNoLaunch, NoneAssumption
<1>7. HandlersAsk'
  <2>1. ASSUME NEW g \in Handlers, handler'[g] # Idle
        PROVE  asked'[handler'[g].name] \in {handler'[g].launch, Several}
    <3>1. CASE g = h
      BY <1>2, <1>3, <1>4, <3>1
    <3>2. CASE g # h
      <4>1. /\ handler'[g] = handler[g] /\ handler[g].name \in Names
            /\ handler[g].launch \in Launch
            /\ asked[handler[g].name] \in {handler[g].launch, Several}
        BY <1>3, <2>1, <3>2, RequestType DEF IInv, HandlersAsk, Request
      <4>2. QED
        BY <1>6, <4>1, NoneAssumption
    <3>3. QED
      BY <3>1, <3>2
  <2>2. QED
    BY <2>1 DEF HandlersAsk
<1>8. RowsAsk'
  <2>1. ASSUME NEW m \in Names, row[m] # None
        PROVE  asked'[m] \in {row[m].launch, Several}
    <3>1. row[m].launch \in Launch /\ asked[m] \in {row[m].launch, Several}
      BY <2>1 DEF IInv, TypeOK, Row, RowsAsk
    <3>2. QED
      BY <1>6, <3>1, NoneAssumption
  <2>2. QED
    BY <1>1, <2>1 DEF RowsAsk
<1>9. BlobsAsk'
  BY <1>1, <1>6, NoneAssumption DEF IInv, BlobsAsk, Unambiguous
<1>10. CrdsAsk'
  BY <1>1, <1>6, NoneAssumption DEF IInv, CrdsAsk, Unambiguous
<1>11. Progress'
  <2>1. ASSUME NEW g \in Handlers, g # h, handler[g].pc # "idle"
        PROVE  handler[g].name \in Names
    BY <2>1, RequestType DEF IInv, Request
  <2>2. \A g \in Handlers : handler'[g].pc \in {"userInputs", "execute", "create"}
            => g # h /\ handler'[g] = handler[g]
    BY <1>2, <1>3
  <2>3. \A m \in Names : Unambiguous(m)' => Unambiguous(m)
    BY <1>6 DEF Unambiguous
  <2>4. QED
    BY <1>1, <2>1, <2>2, <2>3 DEF IInv, Progress
<1>12. Stored'
  BY <1>1, <1>6 DEF IInv, Stored, Unambiguous
<1>13. Sources'
  <2>1. ASSUME NEW l \in Launch, Sourced(l)
        PROVE  Sourced(l)'
    BY <1>1, <1>6, <2>1, SourcedKept
  <2>2. \A g \in Handlers : handler[g] # Idle => handler[g].launch \in Launch
    BY RequestType DEF IInv, Request
  <2>3. \A m \in Names : row[m] # None => row[m].launch \in Launch
    BY DEF IInv, TypeOK, Row
  <2>4. QED
    BY <1>1, <1>2, <1>3, <2>1, <2>2, <2>3 DEF IInv, Sources
<1>14. QED
  BY <1>5, <1>7, <1>8, <1>9, <1>10, <1>11, <1>12, <1>13 DEF IInv

\* What holds of a request h is serving, and what a step of h that asks for
\* nothing new and inserts no row leaves as it is.
LEMMA Serving ==
    ASSUME IInv, NEW h \in Handlers, handler[h].pc # "idle"
    PROVE  /\ handler[h] \in Request /\ handler[h] # Idle
           /\ handler[h].name \in Names /\ handler[h].launch \in Launch
           /\ handler[h].launch.args \in Args \cup {None}
           /\ asked[handler[h].name] \in {handler[h].launch, Several}
           /\ Sourced(handler[h].launch)
BY RequestType DEF IInv, HandlersAsk, Sources, Request, Launch

LEMMA AsideInv ==
    ASSUME IInv, NEW h \in Handlers, NEW r \in Request \cup {Idle},
           handler' = [handler EXCEPT ![h] = r],
           r # Idle => /\ handler[h] # Idle /\ r.name = handler[h].name
                       /\ r.launch = handler[h].launch,
           UNCHANGED <<row, asked>>
    PROVE  /\ handler' \in [Handlers -> Request \cup {Idle}]
           /\ \A g \in Handlers : handler'[g] = IF g = h THEN r ELSE handler[g]
           /\ HandlersAsk' /\ RowsAsk' /\ Sources'
<1>1. /\ handler' \in [Handlers -> Request \cup {Idle}]
      /\ \A g \in Handlers : handler'[g] = IF g = h THEN r ELSE handler[g]
  BY DEF IInv, TypeOK
<1>2. HandlersAsk' /\ RowsAsk'
  BY <1>1 DEF IInv, HandlersAsk, RowsAsk
<1>3. Sources'
  <2>1. ASSUME NEW l, Sourced(l)
        PROVE  Sourced(l)'
    BY <2>1 DEF Sourced, Unambiguous
  <2>2. QED
    BY <1>1, <2>1 DEF IInv, Sources
<1>4. QED
  BY <1>1, <1>2, <1>3

\* The inputs are those of the one launch asked for.
LEMMA OffloadInputsInv ==
    ASSUME IInv, NEW h \in Handlers, OffloadInputs(h)
    PROVE  IInv'
<1> DEFINE r == handler[h]
           next == [r EXCEPT !.pc = "userInputs"]
<1>1. /\ r.pc = "inputs" /\ handler' = [handler EXCEPT ![h] = next]
      /\ blob' = [blob EXCEPT ![r.name].inputs = executionInputs(r.launch)]
      /\ UNCHANGED <<row, crd, asked, launched>>
  BY DEF OffloadInputs
<1>2. /\ r \in Request /\ r # Idle /\ r.name \in Names /\ r.launch \in Launch
      /\ asked[r.name] \in {r.launch, Several}
  BY <1>1, Serving
<1>3. next \in Request /\ next.pc = "userInputs" /\ next.name = r.name
      /\ next.launch = r.launch /\ next # Idle
  BY <1>2 DEF Request, Idle
<1>4. executionInputs(r.launch) \in LiteralMap
  BY <1>2 DEF executionInputs, LiteralMap, Launch
<1> HIDE DEF next
<1>5. /\ handler' \in [Handlers -> Request \cup {Idle}]
      /\ \A g \in Handlers : handler'[g] = IF g = h THEN next ELSE handler[g]
      /\ HandlersAsk' /\ RowsAsk' /\ Sources'
  BY <1>1, <1>2, <1>3, AsideInv, Zenon
<1>6. \A n \in Names :
        /\ blob'[n].userInputs = blob[n].userInputs
        /\ blob'[n].inputs = IF n = r.name THEN executionInputs(r.launch)
                             ELSE blob[n].inputs
  BY <1>1 DEF IInv, TypeOK
<1>7. TypeOK'
  BY <1>1, <1>2, <1>4, <1>5 DEF IInv, TypeOK
<1>8. BlobsAsk' /\ CrdsAsk' /\ Stored'
  BY <1>1, <1>2, <1>4, <1>6, NoneAssumption
     DEF IInv, BlobsAsk, CrdsAsk, Stored, Unambiguous
<1>9. Progress'
  <2>1. \A g \in Handlers : handler[g].pc # "idle" => handler[g].name \in Names
    BY Serving
  <2>2. QED
    BY <1>1, <1>2, <1>3, <1>4, <1>5, <1>6, <2>1, NoneAssumption
       DEF IInv, Progress, Unambiguous
<1>10. QED
  BY <1>5, <1>7, <1>8, <1>9 DEF IInv

\* So are the inputs of the user.
LEMMA OffloadUserInputsInv ==
    ASSUME IInv, NEW h \in Handlers, OffloadUserInputs(h)
    PROVE  IInv'
<1> DEFINE r == handler[h]
           next == [r EXCEPT !.pc = "execute"]
<1>1. /\ r.pc = "userInputs" /\ handler' = [handler EXCEPT ![h] = next]
      /\ blob' = [blob EXCEPT ![r.name].userInputs = r.launch.args]
      /\ UNCHANGED <<row, crd, asked, launched>>
  BY DEF OffloadUserInputs
<1>2. /\ r \in Request /\ r # Idle /\ r.name \in Names /\ r.launch \in Launch
      /\ r.launch.args \in Args \cup {None}
      /\ asked[r.name] \in {r.launch, Several}
  BY <1>1, Serving
<1>3. next \in Request /\ next.pc = "execute" /\ next.name = r.name
      /\ next.launch = r.launch /\ next # Idle
  BY <1>2 DEF Request, Idle
<1> HIDE DEF next
<1>4. /\ handler' \in [Handlers -> Request \cup {Idle}]
      /\ \A g \in Handlers : handler'[g] = IF g = h THEN next ELSE handler[g]
      /\ HandlersAsk' /\ RowsAsk' /\ Sources'
  BY <1>1, <1>2, <1>3, AsideInv, Zenon
<1>5. \A n \in Names :
        /\ blob'[n].inputs = blob[n].inputs
        /\ blob'[n].userInputs = IF n = r.name THEN r.launch.args
                                 ELSE blob[n].userInputs
  BY <1>1 DEF IInv, TypeOK
<1>6. TypeOK'
  BY <1>1, <1>2, <1>4 DEF IInv, TypeOK
<1>7. BlobsAsk' /\ CrdsAsk'
  BY <1>1, <1>5 DEF IInv, BlobsAsk, CrdsAsk, Unambiguous
<1>8. Stored'
  BY <1>1, <1>2, <1>5, SeveralIsNoLaunch
     DEF IInv, Stored, Unambiguous, RowsAsk
<1>9. Progress'
  <2>1. \A g \in Handlers : handler[g].pc # "idle" =>
            /\ handler[g].name \in Names
            /\ asked[handler[g].name] \in {handler[g].launch, Several}
    BY Serving
  <2>2. QED
    BY <1>1, <1>2, <1>3, <1>4, <1>5, <2>1 DEF IInv, Progress, Unambiguous
<1>10. QED
  BY <1>4, <1>6, <1>7, <1>8, <1>9 DEF IInv

\* A workflow is that of the one launch asked for, be it created or found.
LEMMA ExecuteInv ==
    ASSUME IInv, NEW h \in Handlers, NEW c \in Clusters, Execute(h, c)
    PROVE  IInv'
<1> DEFINE r == handler[h]
           next == [r EXCEPT !.pc = "create", !.cluster = c]
           workflow == [inputs: LiteralMap, recovers: Names \cup {None}]
<1>1. /\ r.pc = "execute" /\ handler' = [handler EXCEPT ![h] = next]
      /\ crd' = [crd EXCEPT ![c][r.name] =
                   IF @ = None THEN FlyteWorkflow(r.launch) ELSE @]
      /\ launched' = [launched EXCEPT ![r.name] = @ \cup {c}]
      /\ UNCHANGED <<row, blob, asked>>
  BY Zenon DEF Execute
<1>2. /\ r \in Request /\ r # Idle /\ r.name \in Names /\ r.launch \in Launch
      /\ asked[r.name] \in {r.launch, Several}
  BY <1>1, Serving
<1>3. next \in Request /\ next.pc = "create" /\ next.name = r.name
      /\ next.launch = r.launch /\ next.cluster = c /\ next # Idle
  BY <1>2, Zenon DEF Request, Idle
<1>4. FlyteWorkflow(r.launch) \in workflow
  BY <1>2 DEF FlyteWorkflow, executionInputs, LiteralMap, Launch
<1> HIDE DEF next
<1>5. /\ handler' \in [Handlers -> Request \cup {Idle}]
      /\ \A g \in Handlers : handler'[g] = IF g = h THEN next ELSE handler[g]
      /\ HandlersAsk' /\ RowsAsk' /\ Sources'
  BY <1>1, <1>2, <1>3, AsideInv, Zenon
<1>6. \A d \in Clusters, n \in Names :
        crd'[d][n] = IF d = c /\ n = r.name /\ crd[d][n] = None
                     THEN FlyteWorkflow(r.launch) ELSE crd[d][n]
  BY <1>1 DEF IInv, TypeOK
<1>7. \A n \in Names : /\ launched[n] \subseteq launched'[n]
                       /\ n = r.name => c \in launched'[n]
  BY <1>1 DEF IInv, TypeOK
<1>8. TypeOK'
  <2>1. crd' \in [Clusters -> [Names -> workflow \cup {None}]]
    <3> DEFINE w == IF crd[c][r.name] = None THEN FlyteWorkflow(r.launch)
                    ELSE crd[c][r.name]
    <3>1. crd \in [Clusters -> [Names -> workflow \cup {None}]]
      BY DEF IInv, TypeOK
    <3> HIDE DEF workflow
    <3>2. w \in workflow \cup {None}
      BY <1>2, <1>4, <3>1
    <3>3. crd' = [crd EXCEPT ![c] = [crd[c] EXCEPT ![r.name] = w]]
      BY <1>1
    <3> HIDE DEF w
    <3>4. QED
      BY <1>2, <3>1, <3>2, <3>3
  <2>2. launched' \in [Names -> SUBSET Clusters]
    BY <1>1, Zenon DEF IInv, TypeOK
  <2>3. QED
    BY <1>1, <1>5, <2>1, <2>2, Zenon DEF IInv, TypeOK
<1>9. BlobsAsk' /\ Stored'
  BY <1>1, <1>7, Zenon DEF IInv, BlobsAsk, Stored, Unambiguous
<1>10. CrdsAsk'
  <2>1. ASSUME NEW d \in Clusters, NEW n \in Names, asked[n] # Several,
               crd'[d][n] # None
        PROVE  asked[n] \in Launch /\ crd'[d][n] = FlyteWorkflow(asked[n])
    <3>1. CASE crd'[d][n] = crd[d][n]
      BY <2>1, <3>1 DEF IInv, CrdsAsk, Unambiguous
    <3>2. CASE n = r.name /\ crd'[d][n] = FlyteWorkflow(r.launch)
      BY <1>2, <2>1, <3>2
    <3>3. QED
      BY <1>6, <3>1, <3>2
  <2>2. QED
    BY <1>1, <2>1, Zenon DEF CrdsAsk, Unambiguous
<1>11. Progress'
  <2>1. \A g \in Handlers : handler[g].pc # "idle" => handler[g].name \in Names
    BY Serving
  <2>2. QED
    BY <1>1, <1>2, <1>3, <1>5, <1>7, <2>1, Zenon DEF IInv, Progress, Unambiguous
<1>12. QED
  BY <1>5, <1>8, <1>9, <1>10, <1>11 DEF IInv

\* The request that inserts the row has left what the row promises.
LEMMA CreateInv ==
    ASSUME IInv, NEW h \in Handlers, Create(h)
    PROVE  IInv'
<1> DEFINE r == handler[h]
           new == [launch |-> r.launch, cluster |-> r.cluster, offloaded |-> TRUE]
<1>1. /\ r.pc = "create" /\ handler' = [handler EXCEPT ![h] = Idle]
      /\ row' = [row EXCEPT ![r.name] = IF @ = None THEN new ELSE @]
      /\ UNCHANGED <<blob, crd, asked, launched>>
  BY Zenon DEF Create
<1>2. /\ r \in Request /\ r # Idle /\ r.name \in Names /\ r.launch \in Launch
      /\ asked[r.name] \in {r.launch, Several} /\ Sourced(r.launch)
  BY <1>1, Serving, Zenon
<1>3. /\ r.cluster \in launched[r.name] /\ blob[r.name].inputs # None
      /\ Unambiguous(r.name) => blob[r.name].userInputs = r.launch.args
  BY <1>1, Zenon DEF IInv, Progress
<1>4. r.cluster \in Clusters
  BY <1>2, <1>3, Zenon DEF IInv, TypeOK
<1>5. new \in Row /\ new.launch = r.launch /\ new.cluster = r.cluster
  BY <1>2, <1>4, Zenon DEF Row
<1> HIDE DEF new
<1>6. \A n \in Names : row'[n] = IF n = r.name /\ row[n] = None THEN new ELSE row[n]
  BY <1>1, Zenon DEF IInv, TypeOK
<1>7. \A g \in Handlers : handler'[g] = IF g = h THEN Idle ELSE handler[g]
  BY <1>1, Zenon DEF IInv, TypeOK
<1>8. TypeOK'
  BY <1>1, <1>5, Zenon DEF IInv, TypeOK
<1>9. HandlersAsk' /\ RowsAsk'
  <2>1. HandlersAsk'
    BY <1>1, <1>7, Zenon DEF IInv, HandlersAsk
  <2>2. RowsAsk'
    BY <1>1, <1>2, <1>5, <1>6, Zenon DEF IInv, RowsAsk
  <2>3. QED
    BY <2>1, <2>2
<1>10. BlobsAsk' /\ CrdsAsk'
  BY <1>1, Zenon DEF IInv, BlobsAsk, CrdsAsk, Unambiguous
<1>11. Progress'
  <2>1. Idle.pc = "idle" /\ Progress
    BY DEF Idle, IInv
  <2>2. QED
    BY <1>1, <1>7, <2>1, Zenon DEF Progress, Unambiguous
<1>12. Stored'
  <2>1. Stored
    BY DEF IInv
  <2>2. ASSUME NEW n \in Names, row'[n] # None
        PROVE  /\ row'[n].cluster \in launched[n]
               /\ row'[n].offloaded =>
                    /\ blob[n].inputs # None
                    /\ Unambiguous(n) => blob[n].userInputs = row'[n].launch.args
    <3>1. CASE row'[n] = row[n]
      BY <2>1, <2>2, <3>1, Zenon DEF Stored
    <3>2. CASE n = r.name /\ row'[n] = new
      BY <1>3, <1>5, <3>2, Zenon
    <3>3. QED
      BY <1>6, <3>1, <3>2, Zenon
  <2>3. QED
    BY <1>1, <2>2, Zenon DEF Stored, Unambiguous
<1>13. Sources'
  <2>1. ASSUME NEW l \in Launch, Sourced(l)
        PROVE  Sourced(l)'
    BY <1>1, <1>6, <2>1, SourcedKept, Zenon
  <2>2. \A g \in Handlers : handler'[g] # Idle =>
            handler'[g].launch \in Launch /\ Sourced(handler'[g].launch)
    BY <1>7, RequestType, Zenon DEF IInv, Request, Sources
  <2>3. \A n \in Names : row'[n] # None =>
            row'[n].launch \in Launch /\ Sourced(row'[n].launch)
    BY <1>2, <1>5, <1>6, Zenon DEF IInv, TypeOK, Row, Sources
  <2>4. QED
    BY <2>1, <2>2, <2>3 DEF Sources
<1>14. QED
  BY <1>8, <1>9, <1>10, <1>11, <1>12, <1>13 DEF IInv

\* A request that ends half way leaves what it has done.
LEMMA FailInv ==
    ASSUME IInv, NEW h \in Handlers, Fail(h)
    PROVE  IInv'
<1>1. /\ handler' = [handler EXCEPT ![h] = Idle]
      /\ UNCHANGED <<row, blob, crd, asked, launched>>
  BY DEF Fail
<1>2. /\ handler' \in [Handlers -> Request \cup {Idle}]
      /\ \A g \in Handlers : handler'[g] = IF g = h THEN Idle ELSE handler[g]
      /\ HandlersAsk' /\ RowsAsk' /\ Sources'
  BY <1>1, AsideInv, Zenon
<1>3. TypeOK'
  BY <1>1, <1>2, Zenon DEF IInv, TypeOK
<1>4. BlobsAsk' /\ CrdsAsk' /\ Stored'
  BY <1>1, Zenon DEF IInv, BlobsAsk, CrdsAsk, Stored, Unambiguous
<1>5. Progress'
  BY <1>1, <1>2, Zenon DEF IInv, Progress, Unambiguous, Idle
<1>6. QED
  BY <1>2, <1>3, <1>4, <1>5, Zenon DEF IInv

\* The launches clients ask for, and what relaunches read of their source.
LEMMA CreateExecutionInv ==
    ASSUME IInv, NEW h \in Handlers, NEW request \in CreateRequests,
           CreateExecution(h, request)
    PROVE  IInv'
<1> DEFINE launch == [entity |-> request.entity, mode |-> "MANUAL",
                      source |-> None, args |-> request.args]
<1>1. request.name \in Names /\ launch \in Launch /\ launch.mode = "MANUAL"
  BY RequestsAssumption, Zenon DEF Launch, Modes
<1>2. Start(h, request.name, launch)
  BY Zenon DEF CreateExecution
<1> HIDE DEF launch
<1>3. Sourced(launch)
  BY <1>1 DEF Sourced
<1>4. QED
  BY <1>1, <1>2, <1>3, StartInv

LEMMA RelaunchInv ==
    ASSUME IInv, NEW h \in Handlers, NEW n \in Names, NEW source \in Names,
           RelaunchExecution(h, n, source) \/ RecoverExecution(h, n, source)
    PROVE  IInv'
<1> DEFINE old == row[source].launch
           kept == row[source].offloaded
           relaunch == [old EXCEPT !.mode = "RELAUNCH", !.source = source,
                          !.args = IF kept THEN blob[source].userInputs ELSE @]
           recovery == [old EXCEPT !.mode = "RECOVERED", !.source = source,
                          !.args = IF kept THEN blob[source].userInputs ELSE None]
<1>1. row[source] # None /\ row[source] \in Row /\ old \in Launch
  BY DEF RelaunchExecution, RecoverExecution, IInv, TypeOK, Row
<1>2. blob[source].userInputs \in Args \cup {None}
  BY Zenon DEF IInv, TypeOK
<1>3. kept /\ Unambiguous(source) => blob[source].userInputs = old.args
  BY <1>1, Zenon DEF IInv, Stored
<1>4. CASE RelaunchExecution(h, n, source)
  <2>1. relaunch \in Launch
    BY <1>1, <1>2, Zenon DEF Launch, Modes
  <2>2. relaunch.source = source
        /\ relaunch.args = IF kept THEN blob[source].userInputs ELSE old.args
    BY <1>1 DEF Launch
  <2>3. Start(h, n, relaunch)
    BY <1>4 DEF RelaunchExecution
  <2> HIDE DEF relaunch
  <2>4. Sourced(relaunch)
    BY <1>1, <1>3, <2>2, Zenon DEF Sourced
  <2>5. QED
    BY <2>1, <2>3, <2>4, StartInv
<1>5. CASE RecoverExecution(h, n, source)
  <2>1. recovery \in Launch
    BY <1>1, <1>2, Zenon DEF Launch, Modes
  <2>2. recovery.source = source /\ recovery.mode = "RECOVERED"
        /\ recovery.args = IF kept THEN blob[source].userInputs ELSE None
    BY <1>1 DEF Launch
  <2>3. Start(h, n, recovery)
    BY <1>5 DEF RecoverExecution
  <2> HIDE DEF recovery
  <2>4. Sourced(recovery)
    BY <1>1, <1>3, <2>2, Zenon DEF Sourced
  <2>5. QED
    BY <2>1, <2>3, <2>4, StartInv
<1>6. QED
  BY <1>4, <1>5

\* One step per action.
LEMMA StepInv == IInv /\ [Next]_vars => IInv'
<1> SUFFICES ASSUME IInv, [Next]_vars PROVE IInv'
  OBVIOUS
<1>1. CASE UNCHANGED vars
  BY <1>1, Zenon DEF vars, IInv, TypeOK, HandlersAsk, RowsAsk, BlobsAsk, CrdsAsk,
              Progress, Stored, Sources, Sourced, Unambiguous
<1>2. ASSUME NEW h \in Handlers, NEW r \in Relaunches,
             \/ RelaunchExecution(h, r.name, r.source)
             \/ RecoverExecution(h, r.name, r.source)
      PROVE  IInv'
  <2>1. r.name \in Names /\ r.source \in Names
    BY RelaunchesAssumption
  <2>2. QED
    BY <1>2, <2>1, RelaunchInv
<1>3. ASSUME NEW n \in Names, NEW c \in Clusters, Collect(c, n)
      PROVE  IInv'
  <2>1. crd' = [crd EXCEPT ![c][n] = None] /\ UNCHANGED <<row, blob, handler, asked, launched>>
    BY <1>3 DEF Collect
  <2>2. TypeOK'
    BY <2>1, Zenon DEF IInv, TypeOK
  <2>3. CrdsAsk'
    BY <2>1, Zenon DEF IInv, TypeOK, CrdsAsk, Unambiguous
  <2>4. HandlersAsk' /\ RowsAsk' /\ BlobsAsk' /\ Progress' /\ Stored' /\ Sources'
    BY <2>1, Zenon DEF IInv, HandlersAsk, RowsAsk, BlobsAsk, Progress, Stored, Sources,
                Sourced, Unambiguous
  <2>5. QED
    BY <2>2, <2>3, <2>4 DEF IInv
<1>4. QED
  BY <1>1, <1>2, <1>3, CreateExecutionInv, OffloadInputsInv, OffloadUserInputsInv,
     ExecuteInv, CreateInv, FailInv, Zenon DEF Next

\* The inductive invariant of launchExecutionAndPrepareModel.
THEOREM Invariance == Spec => []IInv
BY InitInv, StepInv, PTL DEF Spec

\* Launches keep the types of rows, blobs, workflows and requests.
THEOREM TypeCorrect == Spec => []TypeOK
BY Invariance, PTL DEF IInv

\* A row that createExecutionModel has inserted is backed by its inputs and a
\* workflow in its cluster.
THEOREM RowsAlwaysBacked == Spec => []RowsAreBacked
<1>1. IInv => RowsAreBacked
  BY DEF IInv, Stored, RowsAreBacked
<1>2. QED
  BY Invariance, <1>1, PTL

\* Repetitions of one launch, in any number, agree on what is launched.
THEOREM RetriesAlwaysAgree == Spec => []RetriesAgree
<1>1. IInv => RetriesAgree
  BY Zenon DEF IInv, Stored, RowsAsk, BlobsAsk, CrdsAsk, Unambiguous, RetriesAgree
<1>2. QED
  BY Invariance, <1>1, PTL

\* RelaunchExecution and RecoverExecution keep the inputs of their source.
THEOREM RelaunchAlwaysKeepsInputs == Spec => []RelaunchKeepsInputs
<1>1. IInv => RelaunchKeepsInputs
  BY Zenon DEF IInv, Sources, Sourced, RelaunchKeepsInputs
<1>2. QED
  BY Invariance, <1>1, PTL

-----------------------------------------------------------------------------
(***************************************************************************)
(* What the cluster resource controller keeps on the clusters: for any     *)
(* projects, domains, templates and clusters, and any number of changes    *)
(* and failures, its cache is not ahead of the clusters.                   *)
(***************************************************************************)

\* An object with every field of a manifest.
Holds(o, manifest) == Agree(o, manifest, DOMAIN manifest)

FieldsOf(n, stale) == IF n \in stale THEN {"spec", "extra"} ELSE {"spec", "extra", "values"}

\* The template the running Sync applies is in between.
BusyWith(s, n, f) == s.pc \in {"target", "patch"} /\ n = s.namespace /\ f = s.file

\* A cluster the running Sync has been to for its template.
Visited(s, t) == t \notin s.targets /\ (s.pc = "patch" => t # s.target)

\* The cache holds times the files have had, in the directory it is about.
CacheOK ==
    /\ dir \in Dirs
    /\ modTime \in [Dirs -> [Files -> Nat \ {0}]]
    /\ override \in [Namespaces -> Nat]
    /\ applied \in [Namespaces -> [Files -> Nat]]
    /\ \A n \in Namespaces, f \in Files :
         applied[n][f] # 0 => /\ lastAppliedTemplateDir \in Dirs
                              /\ applied[n][f] <= modTime[lastAppliedTemplateDir][f]

ObjectsOK ==
    /\ DOMAIN object = Targets
    /\ \A t \in Targets : /\ DOMAIN object[t] = Namespaces
                          /\ \A n \in Namespaces : DOMAIN object[t][n] = Files

\* CacheIsRight for the directory of the cache, configured or not.
CachedIsHeld ==
    \A n \in Namespaces, f \in Files, t \in Targets :
        /\ applied[n][f] # 0
        /\ applied[n][f] = modTime[lastAppliedTemplateDir][f]
        /\ <<t, n, f>> \notin missed
        /\ ~BusyWith(sync, n, f)
        => Agree(object[t][n][f],
                 Manifest(lastAppliedTemplateDir, modTime[lastAppliedTemplateDir][f], override[n]),
                 FieldsOf(n, outdated))

\* In a namespace: the cache is about the directory that was listed, and not
\* ahead of the list.
LookingOK(s) ==
    /\ s.namespace \in Namespaces /\ s.files \subseteq Files
    /\ lastAppliedTemplateDir \in Dirs /\ s.dir = lastAppliedTemplateDir
    /\ \A f \in Files : /\ s.listed[f] \in Nat \ {0}
                        /\ applied[s.namespace][f] <= s.listed[f]
                        /\ s.listed[f] <= modTime[lastAppliedTemplateDir][f]

\* The manifest is made of the file as it was listed or later; the clusters
\* visited hold it, unless they were missed; and once the file counts as
\* applied the values are those of now, or known to be outdated.
ManifestOK(s) ==
    \E time \in Nat : /\ s.listed[s.file] <= time
                      /\ time <= modTime[lastAppliedTemplateDir][s.file]
                      /\ s.manifest = Manifest(lastAppliedTemplateDir, time, s.values)

ApplyingOK(s) ==
    /\ s.file \in Files /\ s.targets \subseteq Targets
    /\ ManifestOK(s)
    /\ applied[s.namespace][s.file] = s.listed[s.file]
          => s.namespace \in outdated \/ s.values = override[s.namespace]
    /\ \A t \in Targets :
         Visited(s, t) /\ <<t, s.namespace, s.file>> \notin missed
             => Holds(object[t][s.namespace][s.file], s.manifest)

SyncOK(s) ==
    /\ DOMAIN s = DOMAIN NotSyncing
    /\ s.pc \in {"idle", "namespace", "file", "target", "patch"}
    /\ s.todo \subseteq (DOMAIN Projects) \X (DOMAIN Domains)
    /\ s.pc \in {"file", "target", "patch"} => LookingOK(s)
    /\ s.pc \in {"target", "patch"} => ApplyingOK(s)
    /\ s.pc = "patch" => s.target \in Targets /\ s.patch = createPatch(s.current, s.manifest)

ClusterInv == CacheOK /\ ObjectsOK /\ CachedIsHeld /\ SyncOK(sync)

-----------------------------------------------------------------------------
(* Objects and manifests.                                                  *)

\* The values of a manifest make no difference to its other fields.
LEMMA ValuesAside ==
    ASSUME NEW o, NEW d, NEW time, NEW v, NEW w,
           Agree(o, Manifest(d, time, v), {"spec", "extra"})
    PROVE  Agree(o, Manifest(d, time, w), {"spec", "extra"})
<1>1. DOMAIN Manifest(d, time, v) = DOMAIN Manifest(d, time, w)
  BY DEF Manifest
<1>2. \A x \in {"spec", "extra"} \cap DOMAIN Manifest(d, time, w) :
         Manifest(d, time, v)[x] = Manifest(d, time, w)[x]
  BY Zenon DEF Manifest
<1>. QED  BY <1>1, <1>2, Zenon DEF Agree

\* An object that holds a manifest agrees with it on any fields.
LEMMA HoldsAll ==
    ASSUME NEW o, NEW manifest, NEW fields, Holds(o, manifest)
    PROVE  Agree(o, manifest, fields)
BY DEF Holds, Agree

\* The patch makes an object hold the manifest; one it does not change holds
\* the manifest already.
LEMMA PatchHolds ==
    ASSUME NEW o, NEW manifest
    PROVE  /\ Holds(manifest, manifest)
           /\ Holds(Patched(o, createPatch(o, manifest), manifest), manifest)
           /\ createPatch(o, manifest) = noChange => Holds(o, manifest)
<1>1. Holds(manifest, manifest)
  BY DEF Holds, Agree
<1>2. DOMAIN getLastApplied(o) = {}
  BY DEF getLastApplied
<1>. DEFINE patch == createPatch(o, manifest)
<1>3. /\ patch.set = {x \in DOMAIN manifest : x \notin DOMAIN o \/ o[x] # manifest[x]}
      /\ patch.delete = {}
  BY <1>2, Zenon DEF createPatch
<1>. HIDE DEF patch
<1>4. Holds(Patched(o, patch, manifest), manifest)
  BY <1>3, Zenon DEF Holds, Agree, Patched
<1>5. patch = noChange => Holds(o, manifest)
  BY <1>3 DEF Holds, Agree, noChange
<1>. QED  BY <1>1, <1>4, <1>5 DEF patch

-----------------------------------------------------------------------------
(* The steps of Sync.                                                      *)

LEMMA ClusterInitInv == ClusterInit => ClusterInv
<1>. SUFFICES ASSUME ClusterInit PROVE ClusterInv
  OBVIOUS
<1>1. CacheOK
  BY DEF ClusterInit, CacheOK, NotApplied
<1>2. ObjectsOK
  BY DEF ClusterInit, ObjectsOK
<1>3. CachedIsHeld
  BY Zenon DEF ClusterInit, CachedIsHeld, NotApplied
<1>4. SyncOK(sync)
  BY Zenon DEF ClusterInit, SyncOK, NotSyncing
<1>. QED  BY <1>1, <1>2, <1>3, <1>4, Zenon DEF ClusterInv

\* A step that changes where Sync stands, and nothing the cache is about.
LEMMA SyncOnly ==
    ASSUME ClusterInv, SyncOK(sync)',
           \A n \in Namespaces, f \in Files : BusyWith(sync, n, f) => BusyWith(sync', n, f),
           UNCHANGED <<dir, modTime, override, applied, lastAppliedTemplateDir, object, missed, outdated>>
    PROVE  ClusterInv'
<1>1. CacheOK' /\ ObjectsOK'
  BY Zenon DEF ClusterInv, CacheOK, ObjectsOK
<1>2. CachedIsHeld'
  BY Zenon DEF ClusterInv, CachedIsHeld
<1>. QED  BY <1>1, <1>2, Zenon DEF ClusterInv

\* Elsewhere in the same namespace.
LEMMA SameLooking ==
    ASSUME LookingOK(sync), sync'.namespace = sync.namespace, sync'.files \subseteq sync.files,
           sync'.dir = sync.dir, sync'.listed = sync.listed,
           UNCHANGED <<modTime, applied, lastAppliedTemplateDir>>
    PROVE  LookingOK(sync)'
BY Zenon DEF LookingOK

\* Where Sync is when it is not in a namespace.
LEMMA AtLarge ==
    ASSUME SyncOK(sync), DOMAIN sync' = DOMAIN sync, sync'.pc \in {"idle", "namespace"},
           \/ sync'.todo \subseteq sync.todo
           \/ sync'.todo \subseteq NamespacesToSync
    PROVE  SyncOK(sync)' /\ \A n \in Namespaces, f \in Files : ~BusyWith(sync', n, f)
BY Zenon DEF SyncOK, NamespacesToSync, BusyWith

\* A Sync begins, ends, fails or goes to the next namespace.
LEMMA AroundInv ==
    ASSUME ClusterInv,
           Sync \/ SyncFails \/ SyncEnds \/ ReadDirFails \/ NamespaceDone \/ \E f \in Files : Panics(f)
    PROVE  ClusterInv'
<1>1. SyncOK(sync)
  BY Zenon DEF ClusterInv
<1>2. UNCHANGED <<dir, modTime, override, applied, lastAppliedTemplateDir, object, missed, outdated>>
  BY Zenon DEF Sync, SyncFails, SyncEnds, ReadDirFails, NamespaceDone, Panics, world, cache
<1>3. CASE SyncFails
  <2>1. sync' = sync
    BY <1>3, Zenon DEF SyncFails
  <2>2. SyncOK(sync)'
    BY <1>1, <1>2, <2>1, Zenon DEF SyncOK, LookingOK, ApplyingOK, ManifestOK
  <2>. QED  BY <1>2, <2>1, <2>2, SyncOnly, Zenon
<1>4. CASE Sync \/ SyncEnds \/ ReadDirFails \/ NamespaceDone \/ \E f \in Files : Panics(f)
  <2>1. sync.pc \notin {"target", "patch"}
    BY <1>4 DEF Sync, SyncEnds, ReadDirFails, NamespaceDone, Panics, NotSyncing
  <2>2. /\ DOMAIN sync' = DOMAIN sync /\ sync'.pc \in {"idle", "namespace"}
        /\ sync'.todo \subseteq sync.todo \/ sync'.todo \subseteq NamespacesToSync
    <3>1. CASE Sync
      BY <1>1, <3>1 DEF Sync, SyncOK, NotSyncing
    <3>2. CASE sync' = NotSyncing
      BY <1>1, <3>2, Zenon DEF SyncOK, NotSyncing
    <3>3. CASE sync' = Leave
      BY <1>1, <3>3 DEF SyncOK, NotSyncing, Leave
    <3>. QED  BY <1>4, <3>1, <3>2, <3>3, Zenon DEF SyncEnds, ReadDirFails, NamespaceDone, Panics
  <2>3. SyncOK(sync)'
    BY <1>1, <2>2, AtLarge, Zenon
  <2>. QED  BY <1>2, <2>1, <2>3, SyncOnly, Zenon DEF BusyWith
<1>. QED  BY <1>3, <1>4, Zenon

\* A file that is cached is passed over, and so is one that cannot be read.
LEMMA PassOver ==
    ASSUME ClusterInv, sync.pc = "file", NEW f \in Files,
           sync' = [sync EXCEPT !.files = @ \ {f}],
           UNCHANGED <<dir, modTime, override, applied, lastAppliedTemplateDir, object, missed, outdated>>
    PROVE  ClusterInv'
<1>1. SyncOK(sync) /\ LookingOK(sync)
  BY DEF ClusterInv, SyncOK
<1>2. /\ DOMAIN sync' = DOMAIN sync /\ sync'.pc = "file" /\ sync'.todo = sync.todo
      /\ sync'.namespace = sync.namespace /\ sync'.files \subseteq sync.files
      /\ sync'.dir = sync.dir /\ sync'.listed = sync.listed
  BY <1>1 DEF SyncOK, NotSyncing
<1>3. LookingOK(sync)'
  BY <1>1, <1>2, SameLooking
<1>4. SyncOK(sync)'
  BY <1>1, <1>2, <1>3 DEF SyncOK
<1>5. \A n \in Namespaces, g \in Files : ~BusyWith(sync, n, g)
  BY DEF BusyWith
<1>. QED  BY <1>4, <1>5, SyncOnly, Zenon

\* The file is read: its template is as it was listed, or newer.
LEMMA CreateResourceInv ==
    ASSUME ClusterInv, NEW f \in Files, createResourceFromTemplate(f)
    PROVE  ClusterInv'
<1>1. SyncOK(sync) /\ LookingOK(sync) /\ sync.pc = "file" /\ f \in sync.files
  BY DEF ClusterInv, SyncOK, createResourceFromTemplate
<1>2. UNCHANGED <<dir, modTime, override, applied, lastAppliedTemplateDir, object, missed, outdated>>
  BY Zenon DEF createResourceFromTemplate, world, cache
<1>. DEFINE manifest == Manifest(sync.dir, modTime[sync.dir][f], sync.values)
<1>3. CASE sync' = [sync EXCEPT !.files = @ \ {f}]
  BY <1>1, <1>2, <1>3, PassOver, Zenon
<1>4. CASE sync' = [sync EXCEPT !.pc = "target", !.files = @ \ {f}, !.file = f,
                                !.manifest = manifest, !.targets = Targets]
  <2>. HIDE DEF manifest
  <2>1. /\ DOMAIN sync' = DOMAIN sync /\ sync'.pc = "target" /\ sync'.todo = sync.todo
        /\ sync'.namespace = sync.namespace /\ sync'.files \subseteq sync.files
        /\ sync'.dir = sync.dir /\ sync'.listed = sync.listed /\ sync'.values = sync.values
        /\ sync'.file = f /\ sync'.manifest = manifest /\ sync'.targets = Targets
    BY <1>1, <1>4 DEF SyncOK, NotSyncing
  <2>2. LookingOK(sync)'
    BY <1>1, <1>2, <2>1, SameLooking, Zenon
  <2>3. ManifestOK(sync)'
    <3>1. /\ modTime[lastAppliedTemplateDir][f] \in Nat
          /\ sync.listed[f] <= modTime[lastAppliedTemplateDir][f]
          /\ manifest = Manifest(lastAppliedTemplateDir, modTime[lastAppliedTemplateDir][f], sync.values)
      BY <1>1, Zenon DEF ClusterInv, CacheOK, LookingOK, manifest
    <3>. QED  BY <1>2, <2>1, <3>1 DEF ManifestOK
  <2>4. applied[sync.namespace][f] # sync.listed[f]
    BY Zenon DEF createResourceFromTemplate, templateAlreadyApplied
  <2>5. ApplyingOK(sync)'
    BY <1>2, <2>1, <2>3, <2>4, Zenon DEF ApplyingOK, Visited
  <2>6. SyncOK(sync)'
    BY <1>1, <2>1, <2>2, <2>5, Zenon DEF SyncOK
  <2>7. \A n \in Namespaces, g \in Files : ~BusyWith(sync, n, g)
    BY <1>1 DEF BusyWith
  <2>. QED  BY <1>2, <2>6, <2>7, SyncOnly, Zenon
<1>. QED  BY <1>3, <1>4, Zenon DEF createResourceFromTemplate, manifest

\* A namespace is entered: the cache is emptied when it is about another
\* directory, and no newer than the list of the files.
LEMMA EnterNamespaceInv ==
    ASSUME ClusterInv, EnterNamespace
    PROVE  ClusterInv'
<1>1. SyncOK(sync) /\ CacheOK /\ ObjectsOK /\ CachedIsHeld /\ sync.pc = "namespace"
  BY Zenon DEF ClusterInv, EnterNamespace
<1>2. /\ UNCHANGED <<dir, modTime, override, object>>
      /\ lastAppliedTemplateDir' = dir
      /\ applied' = AppliedTemplates
      /\ lastAppliedTemplateDir = dir => missed' = missed /\ outdated' = outdated
  BY Zenon DEF EnterNamespace, world
<1>3. \E p \in sync.todo : \E values :
         sync' = [sync EXCEPT !.pc = "file", !.todo = @ \ {p}, !.namespace = Namespace(p),
                              !.dir = dir, !.values = values,
                              !.listed = modTime[dir], !.files = Files]
  BY Zenon DEF EnterNamespace
<1>4. PICK p \in sync.todo :
         /\ DOMAIN sync' = DOMAIN sync /\ sync'.pc = "file" /\ sync'.todo \subseteq sync.todo
         /\ sync'.namespace = Namespace(p) /\ sync'.files = Files
         /\ sync'.dir = dir /\ sync'.listed = modTime[dir]
  BY <1>1, <1>3 DEF SyncOK, NotSyncing
<1>5. Namespace(p) \in Namespaces
  BY <1>1, Zenon DEF SyncOK, Namespace, Namespaces, Range2
<1>6. /\ applied' \in [Namespaces -> [Files -> Nat]]
      /\ \A n \in Namespaces, f \in Files :
           /\ applied'[n][f] <= modTime[dir][f]
           /\ applied'[n][f] # 0 => lastAppliedTemplateDir = dir /\ applied' = applied
  <2>1. CASE lastAppliedTemplateDir # dir
    <3>1. applied' = [n \in Namespaces |-> [f \in Files |-> 0]]
      BY <1>2, <2>1, Zenon DEF AppliedTemplates, NotApplied
    <3>2. dir \in Dirs /\ modTime \in [Dirs -> [Files -> Nat \ {0}]]
      BY <1>1, Zenon DEF CacheOK
    <3>3. \A f \in Files : modTime[dir][f] \in Nat
      BY <3>2
    <3>. QED  BY <3>1, <3>3
  <2>2. CASE lastAppliedTemplateDir = dir
    BY <1>1, <1>2, <2>2 DEF AppliedTemplates, CacheOK
  <2>. QED  BY <2>1, <2>2, Zenon
<1>7. CacheOK'
  BY <1>1, <1>2, <1>6, Zenon DEF CacheOK
<1>8. ObjectsOK'
  BY <1>1, <1>2, Zenon DEF ObjectsOK
<1>9. LookingOK(sync)'
  BY <1>1, <1>2, <1>4, <1>5, <1>6 DEF LookingOK, CacheOK
<1>10. SyncOK(sync)'
  BY <1>1, <1>4, <1>9, Zenon DEF SyncOK
<1>11. \A n \in Namespaces, f \in Files : ~BusyWith(sync, n, f)
  BY <1>1 DEF BusyWith
<1>12. CachedIsHeld'
  <2>. SUFFICES ASSUME NEW n \in Namespaces, NEW f \in Files, NEW t \in Targets,
                       applied'[n][f] # 0, applied'[n][f] = modTime[dir][f], <<t, n, f>> \notin missed'
                PROVE  Agree(object[t][n][f], Manifest(dir, modTime[dir][f], override[n]),
                             FieldsOf(n, outdated'))
    BY <1>2, Zenon DEF CachedIsHeld
  <2>1. lastAppliedTemplateDir = dir /\ applied' = applied /\ missed' = missed /\ outdated' = outdated
    BY <1>2, <1>6, Zenon
  <2>. QED  BY <1>1, <1>11, <2>1, Zenon DEF CachedIsHeld
<1>. QED  BY <1>7, <1>8, <1>10, <1>12, Zenon DEF ClusterInv

\* The template has been to every cluster: once it counts as applied as it is
\* now, the clusters that were not missed hold it as it is now.
LEMMA FileDoneInv ==
    ASSUME ClusterInv, FileDone
    PROVE  ClusterInv'
<1>. DEFINE N == sync.namespace
            F == sync.file
            D == lastAppliedTemplateDir
<1>1. /\ SyncOK(sync) /\ CacheOK /\ ObjectsOK /\ CachedIsHeld
      /\ LookingOK(sync) /\ ApplyingOK(sync)
      /\ sync.pc = "target" /\ sync.targets = {}
  BY DEF ClusterInv, SyncOK, FileDone
<1>2. /\ sync' = [sync EXCEPT !.pc = "file", !.file = Nothing, !.manifest = Nothing]
      /\ UNCHANGED <<dir, modTime, override, applied, lastAppliedTemplateDir, object, missed, outdated>>
  BY Zenon DEF FileDone, world, cache
<1>3. /\ DOMAIN sync' = DOMAIN sync /\ sync'.pc = "file" /\ sync'.todo = sync.todo
      /\ sync'.namespace = sync.namespace /\ sync'.files \subseteq sync.files
      /\ sync'.dir = sync.dir /\ sync'.listed = sync.listed
  BY <1>1, <1>2 DEF SyncOK, NotSyncing
<1>4. LookingOK(sync)'
  BY <1>1, <1>2, <1>3, SameLooking
<1>5. SyncOK(sync)'
  BY <1>1, <1>3, <1>4, Zenon DEF SyncOK
<1>6. CacheOK' /\ ObjectsOK'
  BY <1>1, <1>2, Zenon DEF CacheOK, ObjectsOK
<1>7. ASSUME NEW t \in Targets, applied[N][F] = modTime[D][F], <<t, N, F>> \notin missed
      PROVE  Agree(object[t][N][F], Manifest(D, modTime[D][F], override[N]), FieldsOf(N, outdated))
  <2>1. PICK time \in Nat : /\ sync.listed[F] <= time /\ time <= modTime[D][F]
                            /\ sync.manifest = Manifest(D, time, sync.values)
    BY <1>1, Zenon DEF ApplyingOK, ManifestOK
  <2>2. sync.listed[F] = modTime[D][F] /\ time = modTime[D][F]
    <3>1. F \in Files /\ D \in Dirs /\ sync.listed[F] \in Nat /\ applied[N][F] <= sync.listed[F]
      BY <1>1, Zenon DEF LookingOK, ApplyingOK
    <3>2. modTime[D][F] \in Nat
      BY <1>1, <3>1, Zenon DEF CacheOK
    <3>. QED  BY <1>7, <2>1, <3>1, <3>2
  <2>3. Holds(object[t][N][F], Manifest(D, modTime[D][F], sync.values))
    BY <1>1, <1>7, <2>1, <2>2, Zenon DEF ApplyingOK, Visited
  <2>4. N \in outdated \/ sync.values = override[N]
    BY <1>1, <1>7, <2>2, Zenon DEF ApplyingOK
  <2>5. CASE N \in outdated
    BY <2>3, <2>5, HoldsAll, ValuesAside, Zenon DEF FieldsOf
  <2>6. CASE sync.values = override[N]
    BY <2>3, <2>6, HoldsAll, Zenon
  <2>. QED  BY <2>4, <2>5, <2>6, Zenon
<1>8. CachedIsHeld'
  <2>. SUFFICES ASSUME NEW n \in Namespaces, NEW f \in Files, NEW t \in Targets,
                       applied[n][f] # 0, applied[n][f] = modTime[D][f], <<t, n, f>> \notin missed
                PROVE  Agree(object[t][n][f], Manifest(D, modTime[D][f], override[n]),
                             FieldsOf(n, outdated))
    BY <1>2, Zenon DEF CachedIsHeld
  <2>1. CASE n = N /\ f = F
    BY <1>7, <2>1, Zenon
  <2>2. CASE ~(n = N /\ f = F)
    <3>1. ~BusyWith(sync, n, f)
      BY <2>2, Zenon DEF BusyWith
    <3>. QED  BY <1>1, <3>1, Zenon DEF CachedIsHeld
  <2>. QED  BY <2>1, <2>2, Zenon
<1>. QED  BY <1>5, <1>6, <1>8, Zenon DEF ClusterInv

\* The object exists: it is read, for a patch.
LEMMA GetObjectInv ==
    ASSUME ClusterInv, NEW t \in Targets, GetObject(t)
    PROVE  ClusterInv'
<1>1. SyncOK(sync) /\ LookingOK(sync) /\ ApplyingOK(sync) /\ sync.pc = "target" /\ t \in sync.targets
  BY DEF ClusterInv, SyncOK, GetObject
<1>2. UNCHANGED <<dir, modTime, override, applied, lastAppliedTemplateDir, object, missed, outdated>>
  BY Zenon DEF GetObject, world, cache
<1>3. PICK current :
        sync' = [sync EXCEPT !.pc = "patch", !.targets = @ \ {t}, !.target = t, !.current = current,
                             !.patch = createPatch(current, sync.manifest)]
  BY Zenon DEF GetObject, prepareDynamicCreate
<1>4. /\ DOMAIN sync' = DOMAIN sync /\ sync'.pc = "patch" /\ sync'.todo = sync.todo
      /\ sync'.namespace = sync.namespace /\ sync'.files = sync.files
      /\ sync'.dir = sync.dir /\ sync'.listed = sync.listed /\ sync'.values = sync.values
      /\ sync'.file = sync.file /\ sync'.manifest = sync.manifest
      /\ sync'.targets = sync.targets \ {t} /\ sync'.target = t /\ sync'.current = current
      /\ sync'.patch = createPatch(current, sync.manifest)
  BY <1>1, <1>3 DEF SyncOK, NotSyncing
<1>5. LookingOK(sync)'
  BY <1>1, <1>2, <1>4, SameLooking, Zenon
<1>6. \A u \in Targets : Visited(sync', u) => Visited(sync, u)
  BY <1>1, <1>4, Zenon DEF Visited
<1>7. ManifestOK(sync)'
  BY <1>1, <1>2, <1>4, Zenon DEF ApplyingOK, ManifestOK
<1>8. ApplyingOK(sync)'
  <2>1. sync'.targets \subseteq Targets
    BY <1>1, <1>4, Zenon DEF ApplyingOK
  <2>. QED  BY <1>1, <1>2, <1>4, <1>6, <1>7, <2>1, Zenon DEF ApplyingOK
<1>9. SyncOK(sync)'
  BY <1>1, <1>4, <1>5, <1>8, Zenon DEF SyncOK
<1>10. \A n \in Namespaces, f \in Files : BusyWith(sync, n, f) => BusyWith(sync', n, f)
  BY <1>4, Zenon DEF BusyWith
<1>. QED  BY <1>2, <1>9, <1>10, SyncOnly, Zenon

\* What the visit of a cluster leaves: the cluster holds the manifest or was
\* missed, and nothing else is touched.
Visits(t) ==
    /\ sync.pc \in {"target", "patch"}
    /\ DOMAIN sync' = DOMAIN sync /\ sync'.pc = "target"
    /\ sync'.todo = sync.todo /\ sync'.namespace = sync.namespace /\ sync'.files = sync.files
    /\ sync'.dir = sync.dir /\ sync'.listed = sync.listed /\ sync'.values = sync.values
    /\ sync'.file = sync.file /\ sync'.manifest = sync.manifest
    /\ sync'.targets \subseteq sync.targets
    /\ \A u \in Targets : Visited(sync', u) /\ u # t => Visited(sync, u)
    /\ UNCHANGED <<dir, modTime, override, lastAppliedTemplateDir>>
    /\ \A u \in Targets, n \in Namespaces, f \in Files :
         <<u, n, f>> # <<t, sync.namespace, sync.file>> =>
            /\ object'[u][n][f] = object[u][n][f]
            /\ <<u, n, f>> \notin missed' => <<u, n, f>> \notin missed
    /\ <<t, sync.namespace, sync.file>> \notin missed'
          => Holds(object'[t][sync.namespace][sync.file], sync.manifest)

\* And what becomes of the cache.
Caches ==
    \/ UNCHANGED <<applied, outdated>>
    \/ /\ applied' = [applied EXCEPT ![sync.namespace][sync.file] = sync.listed[sync.file]]
       /\ outdated' = IF sync.values # override[sync.namespace]
                      THEN outdated \cup {sync.namespace} ELSE outdated

LEMMA VisitInv ==
    ASSUME ClusterInv, NEW t \in Targets, Visits(t), Caches, ObjectsOK'
    PROVE  ClusterInv'
<1>. DEFINE N == sync.namespace
            F == sync.file
            D == lastAppliedTemplateDir
<1>1. /\ SyncOK(sync) /\ CacheOK /\ CachedIsHeld /\ LookingOK(sync) /\ ApplyingOK(sync)
  BY Zenon DEF ClusterInv, SyncOK, Visits
<1>2. N \in Namespaces /\ F \in Files /\ sync.listed[F] \in Nat \ {0} /\ D \in Dirs
      /\ sync.listed[F] <= modTime[D][F]
  BY <1>1, Zenon DEF LookingOK, ApplyingOK
<1>3. /\ applied' \in [Namespaces -> [Files -> Nat]]
      /\ \A n \in Namespaces, f \in Files :
           applied'[n][f] = applied[n][f] \/ (n = N /\ f = F /\ applied'[n][f] = sync.listed[F])
      /\ \A n \in outdated : n \in outdated'
      /\ applied'[N][F] = sync.listed[F] => N \in outdated' \/ sync.values = override[N]
  <2>1. CASE UNCHANGED <<applied, outdated>>
    <3>1. applied' = applied /\ outdated' = outdated
      BY <2>1, Zenon
    <3>2. applied \in [Namespaces -> [Files -> Nat]]
      BY <1>1, Zenon DEF CacheOK
    <3>3. applied[N][F] = sync.listed[F] => N \in outdated \/ sync.values = override[N]
      BY <1>1, Zenon DEF ApplyingOK
    <3>. QED  BY <3>1, <3>2, <3>3, Zenon
  <2>2. CASE applied' = [applied EXCEPT ![N][F] = sync.listed[F]]
             /\ outdated' = IF sync.values # override[N] THEN outdated \cup {N} ELSE outdated
    <3>1. applied \in [Namespaces -> [Files -> Nat]]
      BY <1>1, Zenon DEF CacheOK
    <3>. HIDE DEF N, F
    <3>2. PICK listed \in Nat : listed = sync.listed[F]
      BY <1>2
    <3>3. applied' = [applied EXCEPT ![N][F] = listed]
      BY <2>2, <3>2, Zenon
    <3>4. applied' \in [Namespaces -> [Files -> Nat]]
      BY <1>2, <3>1, <3>3
    <3>5. \A n \in Namespaces, f \in Files :
            applied'[n][f] = applied[n][f] \/ (n = N /\ f = F /\ applied'[n][f] = listed)
      BY <3>1, <3>3
    <3>6. /\ \A n \in outdated : n \in outdated'
          /\ N \in outdated' \/ sync.values = override[N]
      BY <2>2, Zenon
    <3>. QED  BY <3>2, <3>4, <3>5, <3>6, Zenon
  <2>. QED  BY <2>1, <2>2, Zenon DEF Caches
<1>4. /\ UNCHANGED <<dir, modTime, override, lastAppliedTemplateDir>>
      /\ sync'.namespace = N /\ sync'.file = F /\ sync'.listed = sync.listed
      /\ sync'.values = sync.values /\ sync'.manifest = sync.manifest
  BY Zenon DEF Visits
<1>5. CacheOK'
  <2>1. \A n \in Namespaces, f \in Files :
          applied'[n][f] # 0 => D \in Dirs /\ applied'[n][f] <= modTime[D][f]
    <3>1. \A n \in Namespaces, f \in Files :
            applied[n][f] # 0 => D \in Dirs /\ applied[n][f] <= modTime[D][f]
      BY <1>1, Zenon DEF CacheOK
    <3>. TAKE n \in Namespaces, f \in Files
    <3>2. CASE applied'[n][f] = applied[n][f]
      BY <3>1, <3>2, Zenon
    <3>3. CASE n = N /\ f = F /\ applied'[n][f] = sync.listed[F]
      BY <1>2, <3>3, Zenon
    <3>. QED  BY <1>3, <3>2, <3>3, Zenon
  <2>. QED  BY <1>1, <1>3, <1>4, <2>1, Zenon DEF CacheOK
<1>6. LookingOK(sync)'
  <2>1. \A f \in Files : applied'[N][f] <= sync.listed[f]
    <3>1. \A f \in Files : applied'[N][f] \in {applied[N][f], sync.listed[f]}
      BY <1>2, <1>3, Zenon
    <3>2. \A f \in Files : sync.listed[f] \in Nat /\ applied[N][f] <= sync.listed[f]
      BY <1>1, Zenon DEF LookingOK
    <3>. QED  BY <3>1, <3>2
  <2>. QED  BY <1>1, <1>4, <2>1, Zenon DEF LookingOK, Visits
<1>7. ApplyingOK(sync)'
  <2>1. ManifestOK(sync)'
    BY <1>1, <1>4, Zenon DEF ApplyingOK, ManifestOK
  <2>2. sync'.targets \subseteq Targets
    BY <1>1, Zenon DEF ApplyingOK, Visits
  <2>3. ASSUME NEW u \in Targets, Visited(sync', u), <<u, N, F>> \notin missed'
        PROVE  Holds(object'[u][N][F], sync.manifest)
    <3>1. CASE u = t
      BY <2>3, <3>1, Zenon DEF Visits
    <3>2. CASE u # t
      <4>1. <<u, N, F>> # <<t, N, F>>
        BY <3>2
      <4>2. Visited(sync, u) /\ object'[u][N][F] = object[u][N][F] /\ <<u, N, F>> \notin missed
        BY <1>2, <2>3, <3>2, <4>1, Zenon DEF Visits
      <4>. QED  BY <1>1, <4>2, Zenon DEF ApplyingOK
    <3>. QED  BY <3>1, <3>2, Zenon
  <2>. QED  BY <1>2, <1>3, <1>4, <2>1, <2>2, <2>3, Zenon DEF ApplyingOK
<1>8. SyncOK(sync)'
  BY <1>1, <1>6, <1>7, Zenon DEF SyncOK, Visits
<1>9. CachedIsHeld'
  <2>. SUFFICES ASSUME NEW n \in Namespaces, NEW f \in Files, NEW u \in Targets,
                       applied'[n][f] # 0, applied'[n][f] = modTime[D][f],
                       <<u, n, f>> \notin missed', ~BusyWith(sync', n, f)
                PROVE  Agree(object'[u][n][f], Manifest(D, modTime[D][f], override[n]),
                             FieldsOf(n, outdated'))
    BY <1>4, Zenon DEF CachedIsHeld
  <2>1. ~(n = N /\ f = F)
    BY <1>4, Zenon DEF BusyWith, Visits
  <2>2. ~BusyWith(sync, n, f) /\ applied'[n][f] = applied[n][f] /\ <<u, n, f>> # <<t, N, F>>
    BY <1>3, <2>1, Zenon DEF BusyWith
  <2>3. object'[u][n][f] = object[u][n][f] /\ <<u, n, f>> \notin missed
    BY <2>2, Zenon DEF Visits
  <2>4. Agree(object[u][n][f], Manifest(D, modTime[D][f], override[n]), FieldsOf(n, outdated))
    BY <1>1, <2>2, <2>3, Zenon DEF CachedIsHeld
  <2>. QED  BY <1>3, <2>3, <2>4, Zenon DEF Agree, FieldsOf
<1>. QED  BY <1>5, <1>8, <1>9, Zenon DEF ClusterInv

\* A target is taken off the list, or the patch is over.
LEMMA LeaveTarget ==
    ASSUME SyncOK(sync), NEW t \in Targets,
           \/ sync.pc = "target" /\ sync' = [sync EXCEPT !.targets = @ \ {t}]
           \/ sync.pc = "patch" /\ sync.target = t /\ sync' = BackToTarget
    PROVE  /\ sync.pc \in {"target", "patch"}
           /\ DOMAIN sync' = DOMAIN sync /\ sync'.pc = "target"
           /\ sync'.todo = sync.todo /\ sync'.namespace = sync.namespace /\ sync'.files = sync.files
           /\ sync'.dir = sync.dir /\ sync'.listed = sync.listed /\ sync'.values = sync.values
           /\ sync'.file = sync.file /\ sync'.manifest = sync.manifest
           /\ sync'.targets \subseteq sync.targets
           /\ \A u \in Targets : Visited(sync', u) /\ u # t => Visited(sync, u)
<1>1. CASE sync.pc = "target" /\ sync' = [sync EXCEPT !.targets = @ \ {t}]
  BY <1>1 DEF SyncOK, NotSyncing, Visited
<1>2. CASE sync.pc = "patch" /\ sync.target = t /\ sync' = BackToTarget
  BY <1>2 DEF SyncOK, NotSyncing, Visited, BackToTarget
<1>. QED  BY <1>1, <1>2, Zenon

\* The template did not reach the cluster, or was there already.
LEMMA UntouchedInv ==
    ASSUME ClusterInv, NEW t \in Targets,
           \/ sync.pc = "target" /\ sync' = [sync EXCEPT !.targets = @ \ {t}]
           \/ sync.pc = "patch" /\ sync.target = t /\ sync' = BackToTarget,
           \/ missed' = missed \cup {<<t, sync.namespace, sync.file>>}
           \/ /\ missed' = missed \ {<<t, sync.namespace, sync.file>>}
              /\ Holds(object[t][sync.namespace][sync.file], sync.manifest),
           UNCHANGED <<world, cache, object, outdated>>
    PROVE  ClusterInv'
<1>1. SyncOK(sync) /\ ObjectsOK
  BY Zenon DEF ClusterInv
<1>2. UNCHANGED <<dir, modTime, override, applied, lastAppliedTemplateDir, object, outdated>>
  BY Zenon DEF world, cache
<1>3. \A u \in Targets, n \in Namespaces, f \in Files :
        <<u, n, f>> # <<t, sync.namespace, sync.file>> =>
           (<<u, n, f>> \notin missed' => <<u, n, f>> \notin missed)
  BY Zenon
<1>4. <<t, sync.namespace, sync.file>> \notin missed'
         => Holds(object[t][sync.namespace][sync.file], sync.manifest)
  BY Zenon
<1>5. Visits(t)
  BY <1>1, <1>2, <1>3, <1>4, LeaveTarget, Zenon DEF Visits
<1>6. Caches /\ ObjectsOK'
  BY <1>1, <1>2, Zenon DEF Caches, ObjectsOK
<1>. QED  BY <1>5, <1>6, VisitInv, Zenon

\* The template reached the cluster, and counts as applied.
LEMMA WrittenInv ==
    ASSUME ClusterInv, NEW t \in Targets, NEW o, Holds(o, sync.manifest),
           \/ sync.pc = "target" /\ sync' = [sync EXCEPT !.targets = @ \ {t}]
           \/ sync.pc = "patch" /\ sync.target = t /\ sync' = BackToTarget,
           object' = [object EXCEPT ![t][sync.namespace][sync.file] = o],
           Applied(t)
    PROVE  ClusterInv'
<1>1. SyncOK(sync) /\ ObjectsOK
  BY Zenon DEF ClusterInv
<1>2. sync.namespace \in Namespaces /\ sync.file \in Files
  BY <1>1 DEF SyncOK, LookingOK, ApplyingOK
<1>3. /\ ObjectsOK'
      /\ \A u \in Targets, n \in Namespaces, f \in Files :
           object'[u][n][f] = IF u = t /\ n = sync.namespace /\ f = sync.file THEN o ELSE object[u][n][f]
  BY <1>1, <1>2 DEF ObjectsOK
<1>4. UNCHANGED <<dir, modTime, override, lastAppliedTemplateDir>>
  BY Zenon DEF Applied, world
<1>5. missed' = missed \ {<<t, sync.namespace, sync.file>>} /\ Caches
  BY Zenon DEF Applied, Caches, CachedTime
<1>6. \A u \in Targets, n \in Namespaces, f \in Files :
        <<u, n, f>> # <<t, sync.namespace, sync.file>> =>
           /\ object'[u][n][f] = object[u][n][f]
           /\ <<u, n, f>> \notin missed' => <<u, n, f>> \notin missed
  BY <1>3, <1>5
<1>7. object'[t][sync.namespace][sync.file] = o
  BY <1>2, <1>3
<1>8. Visits(t)
  BY <1>1, <1>4, <1>6, <1>7, LeaveTarget, Zenon DEF Visits
<1>. QED  BY <1>3, <1>5, <1>8, VisitInv, Zenon

LEMMA CreateObjectInv ==
    ASSUME ClusterInv, NEW t \in Targets, CreateObject(t)
    PROVE  ClusterInv'
BY WrittenInv, PatchHolds, Zenon DEF CreateObject, prepareDynamicCreate

\* What is patched is what was read, or the cluster refuses the patch.
LEMMA PatchInv ==
    ASSUME ClusterInv, NotModified \/ PatchObject \/ PatchRefused
    PROVE  ClusterInv'
<1>. DEFINE t == sync.target
<1>1. sync.pc = "patch" /\ sync' = BackToTarget
  BY Zenon DEF NotModified, PatchObject, PatchRefused
<1>2. t \in Targets /\ sync.patch = createPatch(sync.current, sync.manifest)
  BY <1>1, Zenon DEF ClusterInv, SyncOK
<1>3. CASE PatchRefused
  BY <1>1, <1>2, <1>3, UntouchedInv, Zenon DEF PatchRefused
<1>4. CASE NotModified
  <2>1. Holds(sync.current, sync.manifest)
    BY <1>2, <1>4, PatchHolds, Zenon DEF NotModified
  <2>2. CASE sync.current = Current
    BY <1>1, <1>2, <1>4, <2>1, <2>2, UntouchedInv, Zenon DEF NotModified, Reached, Current
  <2>3. CASE sync.current # Current
    BY <1>1, <1>2, <1>4, <2>3, UntouchedInv, Zenon DEF NotModified, Reached
  <2>. QED  BY <2>2, <2>3, Zenon
<1>5. CASE PatchObject
  <2>. DEFINE o == Patched(sync.current, sync.patch, sync.manifest)
  <2>1. Holds(o, sync.manifest)
    BY <1>2, PatchHolds, Zenon
  <2>2. object' = [object EXCEPT ![t][sync.namespace][sync.file] = o]
    BY <1>5, Zenon DEF PatchObject, addResourceVersion, Current
  <2>. HIDE DEF o
  <2>3. Applied(t)
    BY <1>5, Zenon DEF PatchObject
  <2>. QED  BY <1>1, <1>2, <2>1, <2>2, <2>3, WrittenInv, Zenon
<1>. QED  BY <1>3, <1>4, <1>5, Zenon

LEMMA ApplyFailsInv ==
    ASSUME ClusterInv, NEW t \in Targets, ApplyFails(t)
    PROVE  ClusterInv'
BY UntouchedInv, Zenon DEF ApplyFails

-----------------------------------------------------------------------------
(* What goes on around it.                                                 *)

\* The cache is behind a file that is edited.
LEMMA EditTemplateInv ==
    ASSUME ClusterInv, NEW e \in Files, EditTemplate(e)
    PROVE  ClusterInv'
<1>. DEFINE D == lastAppliedTemplateDir
<1>1. CacheOK /\ ObjectsOK /\ CachedIsHeld /\ SyncOK(sync)
  BY Zenon DEF ClusterInv
<1>2. /\ modTime' = [modTime EXCEPT ![dir][e] = @ + 1]
      /\ UNCHANGED <<dir, override, applied, lastAppliedTemplateDir, object, sync, missed, outdated>>
  BY Zenon DEF EditTemplate, cache
<1>3. /\ modTime' \in [Dirs -> [Files -> Nat \ {0}]]
      /\ \A d \in Dirs, f \in Files :
           modTime[d][f] <= modTime'[d][f]
  BY <1>1, <1>2 DEF CacheOK
<1>4. CacheOK'
  BY <1>1, <1>2, <1>3 DEF CacheOK
<1>5. ObjectsOK'
  BY <1>1, <1>2, Zenon DEF ObjectsOK
<1>6. CachedIsHeld'
  <2>. SUFFICES ASSUME NEW n \in Namespaces, NEW f \in Files, NEW t \in Targets,
                       applied[n][f] # 0, applied[n][f] = modTime'[D][f],
                       <<t, n, f>> \notin missed, ~BusyWith(sync, n, f)
                PROVE  Agree(object[t][n][f], Manifest(D, modTime'[D][f], override[n]),
                             FieldsOf(n, outdated))
    BY <1>2, Zenon DEF CachedIsHeld
  <2>1. modTime'[D][f] = modTime[D][f]
    <3>1. D \in Dirs /\ applied[n][f] <= modTime[D][f]
      BY <1>1, Zenon DEF CacheOK
    <3>2. modTime[D][f] \in Nat /\ modTime'[D][f] \in Nat
      BY <1>1, <1>3, <3>1, Zenon DEF CacheOK
    <3>3. modTime[D][f] <= modTime'[D][f]
      BY <1>3, <3>1, Zenon
    <3>. QED  BY <3>1, <3>2, <3>3
  <2>. QED  BY <1>1, <2>1, Zenon DEF CachedIsHeld
<1>a. ASSUME D \in Dirs, NEW f \in Files, NEW time \in Nat, time <= modTime[D][f]
      PROVE  time <= modTime'[D][f]
  <2>1. modTime[D][f] \in Nat /\ modTime'[D][f] \in Nat
    BY <1>1, <1>3, <1>a, Zenon DEF CacheOK
  <2>2. modTime[D][f] <= modTime'[D][f]
    BY <1>3, <1>a, Zenon
  <2>. QED  BY <1>a, <2>1, <2>2
<1>7. LookingOK(sync) => LookingOK(sync)'
  <2>. SUFFICES ASSUME LookingOK(sync), NEW f \in Files PROVE sync.listed[f] <= modTime'[D][f]
    BY <1>2, Zenon DEF LookingOK
  <2>. PICK time \in Nat : time = sync.listed[f]
    BY Zenon DEF LookingOK
  <2>. QED  BY <1>a, Zenon DEF LookingOK
<1>8. LookingOK(sync) /\ ApplyingOK(sync) => ApplyingOK(sync)'
  <2>. SUFFICES ASSUME LookingOK(sync), ApplyingOK(sync) PROVE ApplyingOK(sync)'
    OBVIOUS
  <2>1. PICK time \in Nat : /\ sync.listed[sync.file] <= time /\ time <= modTime[D][sync.file]
                            /\ sync.manifest = Manifest(D, time, sync.values)
    BY Zenon DEF ApplyingOK, ManifestOK
  <2>2. time <= modTime'[D][sync.file]
    BY <1>a, <2>1, Zenon DEF LookingOK, ApplyingOK
  <2>3. ManifestOK(sync)'
    BY <1>2, <2>1, <2>2, Zenon DEF ManifestOK
  <2>. QED  BY <1>2, <2>3, Zenon DEF ApplyingOK
<1>9. SyncOK(sync)'
  BY <1>1, <1>2, <1>7, <1>8, Zenon DEF SyncOK
<1>. QED  BY <1>4, <1>5, <1>6, <1>9, Zenon DEF ClusterInv

\* Values that change make what is cached outdated.
LEMMA UpdateOverrideInv ==
    ASSUME ClusterInv, NEW m \in Namespaces, UpdateOverride(m)
    PROVE  ClusterInv'
<1>. DEFINE D == lastAppliedTemplateDir
<1>1. CacheOK /\ ObjectsOK /\ CachedIsHeld /\ SyncOK(sync)
  BY Zenon DEF ClusterInv
<1>2. /\ override' = [override EXCEPT ![m] = @ + 1]
      /\ outdated' = IF \E f \in Files : applied[m][f] # 0 THEN outdated \cup {m} ELSE outdated
      /\ UNCHANGED <<dir, modTime, applied, lastAppliedTemplateDir, object, sync, missed>>
  BY Zenon DEF UpdateOverride, cache
<1>3. /\ override' \in [Namespaces -> Nat]
      /\ \A n \in Namespaces : n # m => override'[n] = override[n]
  BY <1>1, <1>2 DEF CacheOK
<1>4. /\ \A n \in outdated : n \in outdated'
      /\ \A f \in Files : applied[m][f] # 0 => m \in outdated'
      /\ \A n \in Namespaces : n # m => (n \in outdated' <=> n \in outdated)
  BY <1>2, Zenon
<1>5. CacheOK' /\ ObjectsOK'
  BY <1>1, <1>2, <1>3, Zenon DEF CacheOK, ObjectsOK
<1>6. CachedIsHeld'
  <2>. SUFFICES ASSUME NEW n \in Namespaces, NEW f \in Files, NEW t \in Targets,
                       applied[n][f] # 0, applied[n][f] = modTime[D][f],
                       <<t, n, f>> \notin missed, ~BusyWith(sync, n, f)
                PROVE  Agree(object[t][n][f], Manifest(D, modTime[D][f], override'[n]),
                             FieldsOf(n, outdated'))
    BY <1>2, Zenon DEF CachedIsHeld
  <2>1. Agree(object[t][n][f], Manifest(D, modTime[D][f], override[n]), FieldsOf(n, outdated))
    BY <1>1, Zenon DEF CachedIsHeld
  <2>2. CASE n = m
    <3>1. Agree(object[t][n][f], Manifest(D, modTime[D][f], override[n]), {"spec", "extra"})
      BY <2>1, Zenon DEF Agree, FieldsOf
    <3>2. FieldsOf(n, outdated') = {"spec", "extra"}
      BY <1>4, <2>2, Zenon DEF FieldsOf
    <3>. QED  BY <3>1, <3>2, ValuesAside, Zenon
  <2>3. CASE n # m
    <3>1. override'[n] = override[n] /\ FieldsOf(n, outdated') = FieldsOf(n, outdated)
      BY <1>3, <1>4, <2>3, Zenon DEF FieldsOf
    <3>. QED  BY <2>1, <3>1, Zenon
  <2>. QED  BY <2>2, <2>3, Zenon
<1>7. LookingOK(sync) => LookingOK(sync)'
  BY <1>2, Zenon DEF LookingOK
<1>8. LookingOK(sync) /\ ApplyingOK(sync) => ApplyingOK(sync)'
  <2>. SUFFICES ASSUME LookingOK(sync), ApplyingOK(sync) PROVE ApplyingOK(sync)'
    OBVIOUS
  <2>1. ManifestOK(sync)'
    BY <1>2, Zenon DEF ApplyingOK, ManifestOK
  <2>2. applied[sync.namespace][sync.file] = sync.listed[sync.file]
           => sync.namespace \in outdated' \/ sync.values = override'[sync.namespace]
    <3>1. sync.file \in Files /\ sync.namespace \in Namespaces /\ sync.listed[sync.file] # 0
      BY Zenon DEF LookingOK, ApplyingOK
    <3>. QED  BY <1>3, <1>4, <3>1, Zenon DEF ApplyingOK
  <2>. QED  BY <1>2, <2>1, <2>2, Zenon DEF ApplyingOK
<1>9. SyncOK(sync)'
  BY <1>1, <1>2, <1>7, <1>8, Zenon DEF SyncOK
<1>. QED  BY <1>5, <1>6, <1>9, Zenon DEF ClusterInv

\* An object somebody else changes is one the template has to reach again.
LEMMA EditObjectInv ==
    ASSUME ClusterInv, NEW e \in Targets, NEW m \in Namespaces, NEW g \in Files, EditObject(e, m, g)
    PROVE  ClusterInv'
<1>. DEFINE D == lastAppliedTemplateDir
<1>1. CacheOK /\ ObjectsOK /\ CachedIsHeld /\ SyncOK(sync)
  BY Zenon DEF ClusterInv
<1>2. UNCHANGED <<dir, modTime, override, applied, lastAppliedTemplateDir, sync, outdated>>
  BY Zenon DEF EditObject, world, cache
<1>3. PICK o : object' = [object EXCEPT ![e][m][g] = o]
  BY Zenon DEF EditObject
<1>4. /\ ObjectsOK'
      /\ \A u \in Targets, n \in Namespaces, f \in Files :
           object'[u][n][f] = IF u = e /\ n = m /\ f = g THEN o ELSE object[u][n][f]
  BY <1>1, <1>3, Zenon DEF ObjectsOK
<1>5. /\ \A x \in missed : x \in missed'
      /\ applied[m][g] # 0 => <<e, m, g>> \in missed'
      /\ BusyWith(sync, m, g) /\ Visited(sync, e) => <<e, m, g>> \in missed'
  <2>1. \A x \in missed : x \in missed'
    BY Zenon DEF EditObject
  <2>2. applied[m][g] # 0 => <<e, m, g>> \in missed'
    BY Zenon DEF EditObject
  <2>3. BusyWith(sync, m, g) /\ Visited(sync, e) =>
          \/ sync.pc = "target" /\ <<m, g>> = <<sync.namespace, sync.file>> /\ e \notin sync.targets
          \/ /\ sync.pc = "patch" /\ <<m, g>> = <<sync.namespace, sync.file>>
             /\ e \notin sync.targets \cup {sync.target}
    BY Zenon DEF BusyWith, Visited
  <2>4. BusyWith(sync, m, g) /\ Visited(sync, e) => <<e, m, g>> \in missed'
    BY <2>3, Zenon DEF EditObject
  <2>. QED  BY <2>1, <2>2, <2>4, Zenon
<1>6. CacheOK'
  BY <1>1, <1>2, Zenon DEF CacheOK
<1>7. CachedIsHeld'
  <2>. SUFFICES ASSUME NEW n \in Namespaces, NEW f \in Files, NEW t \in Targets,
                       applied[n][f] # 0, applied[n][f] = modTime[D][f],
                       <<t, n, f>> \notin missed', ~BusyWith(sync, n, f)
                PROVE  Agree(object'[t][n][f], Manifest(D, modTime[D][f], override[n]),
                             FieldsOf(n, outdated))
    BY <1>2, Zenon DEF CachedIsHeld
  <2>1. ~(t = e /\ n = m /\ f = g) /\ <<t, n, f>> \notin missed
    BY <1>5, Zenon
  <2>2. object'[t][n][f] = object[t][n][f]
    BY <1>4, <2>1, Zenon
  <2>. QED  BY <1>1, <2>1, <2>2, Zenon DEF CachedIsHeld
<1>8. LookingOK(sync) => LookingOK(sync)'
  BY <1>2, Zenon DEF LookingOK
<1>9. ASSUME sync.pc \in {"target", "patch"}, LookingOK(sync), ApplyingOK(sync)
      PROVE  ApplyingOK(sync)'
  <2>1. ManifestOK(sync)'
    BY <1>2, <1>9, Zenon DEF ApplyingOK, ManifestOK
  <2>2. ASSUME NEW t \in Targets, Visited(sync, t), <<t, sync.namespace, sync.file>> \notin missed'
        PROVE  Holds(object'[t][sync.namespace][sync.file], sync.manifest)
    <3>1. sync.namespace \in Namespaces /\ sync.file \in Files
      BY <1>9, Zenon DEF LookingOK, ApplyingOK
    <3>2. ~(t = e /\ sync.namespace = m /\ sync.file = g)
      BY <1>5, <1>9, <2>2, Zenon DEF BusyWith
    <3>3. object'[t][sync.namespace][sync.file] = object[t][sync.namespace][sync.file]
      BY <1>4, <3>1, <3>2, Zenon
    <3>. QED  BY <1>5, <1>9, <2>2, <3>3, Zenon DEF ApplyingOK
  <2>. QED  BY <1>2, <1>9, <2>1, <2>2, Zenon DEF ApplyingOK
<1>10. SyncOK(sync)'
  BY <1>1, <1>2, <1>8, <1>9, Zenon DEF SyncOK
<1>. QED  BY <1>4, <1>6, <1>7, <1>10, Zenon DEF ClusterInv

\* The configuration and the projects are read when a Sync or a namespace
\* begins, and not before.
LEMMA ConfigureInv ==
    ASSUME ClusterInv, dir' \in Dirs,
           UNCHANGED <<modTime, override, cache, object, sync, missed, outdated>>
    PROVE  ClusterInv'
<1>1. UNCHANGED <<modTime, override, applied, lastAppliedTemplateDir, object, sync, missed, outdated>>
  BY Zenon DEF cache
<1>2. CacheOK' /\ ObjectsOK'
  BY <1>1 DEF ClusterInv, CacheOK, ObjectsOK
<1>3. CachedIsHeld'
  BY <1>1, Zenon DEF ClusterInv, CachedIsHeld
<1>4. SyncOK(sync)'
  BY <1>1, Zenon DEF ClusterInv, SyncOK, LookingOK, ApplyingOK, ManifestOK
<1>. QED  BY <1>2, <1>3, <1>4, Zenon DEF ClusterInv

\* A new process starts from an empty cache.
LEMMA ControllerRestartInv ==
    ASSUME ClusterInv, Restart
    PROVE  ClusterInv'
<1>1. /\ applied' = NotApplied /\ sync' = NotSyncing
      /\ UNCHANGED <<dir, modTime, override, object>>
  BY Zenon DEF Restart, world
<1>2. \A n \in Namespaces, f \in Files : applied'[n][f] = 0
  BY <1>1 DEF NotApplied
<1>3. CacheOK'
  BY <1>1, <1>2, Zenon DEF ClusterInv, CacheOK, NotApplied
<1>4. ObjectsOK'
  BY <1>1, Zenon DEF ClusterInv, ObjectsOK
<1>5. CachedIsHeld'
  BY <1>2, Zenon DEF CachedIsHeld
<1>6. SyncOK(sync)'
  BY <1>1, Zenon DEF SyncOK, NotSyncing
<1>. QED  BY <1>3, <1>4, <1>5, <1>6, Zenon DEF ClusterInv

\* One step per action.
LEMMA ClusterStepInv == ClusterInv /\ [ClusterNext]_clusterVars => ClusterInv'
<1>. SUFFICES ASSUME ClusterInv, [ClusterNext]_clusterVars PROVE ClusterInv'
  OBVIOUS
<1>1. CASE UNCHANGED clusterVars
  <2>1. dir' = dir /\ UNCHANGED <<modTime, override, cache, object, sync, missed, outdated>>
    BY <1>1, Zenon DEF clusterVars, world
  <2>2. dir' \in Dirs
    BY <2>1, Zenon DEF ClusterInv, CacheOK
  <2>. QED  BY <2>1, <2>2, ConfigureInv, Zenon
<1>2. ASSUME NEW f \in Files, SkipFile(f) PROVE ClusterInv'
  BY <1>2, PassOver, Zenon DEF SkipFile, world, cache
<1>3. ASSUME NEW d \in Dirs, NEW good \in BOOLEAN, NEW defaults \in BOOLEAN,
             Configure(d, good, defaults)
      PROVE  ClusterInv'
  BY <1>3, ConfigureInv, Zenon DEF Configure
<1>4. ASSUME NEW p \in Range2(Projects), UpdateProject(p) PROVE ClusterInv'
  <2>1. dir' = dir /\ UNCHANGED <<modTime, override, cache, object, sync, missed, outdated>>
    BY <1>4, Zenon DEF UpdateProject
  <2>2. dir' \in Dirs
    BY <2>1, Zenon DEF ClusterInv, CacheOK
  <2>. QED  BY <2>1, <2>2, ConfigureInv, Zenon
<1>5. CASE Step
  BY <1>2, <1>5, AroundInv, EnterNamespaceInv, FileDoneInv, CreateResourceInv, CreateObjectInv,
     GetObjectInv, PatchInv, Zenon DEF Step
<1>. QED  BY <1>1, <1>3, <1>4, <1>5, AroundInv, ApplyFailsInv, EditTemplateInv, UpdateOverrideInv,
             EditObjectInv, ControllerRestartInv, Zenon DEF ClusterNext

\* The inductive invariant holds in every state: what the cache says was applied
\* is what the clusters hold (CacheOK, ObjectsOK, CachedIsHeld), and so is what
\* the running Sync has in hand (SyncOK).
THEOREM ControllerInvariance == ClusterSpec => []ClusterInv
BY ClusterInitInv, ClusterStepInv, PTL DEF ClusterSpec

\* A template that counts as applied as it is now is on every cluster as it is
\* now, but for the clusters it failed to reach and for values that changed:
\* for every set of projects, domains, directories, files and clusters, however
\* often templates, overrides, objects and the configuration change and calls
\* fail while syncNamespace applies them.
THEOREM CacheAlwaysRight == ClusterSpec => []CacheIsRight
<1>1. ClusterInv => CacheIsRight
  <2>. SUFFICES ASSUME ClusterInv, NEW n \in Namespaces, NEW f \in Files, NEW t \in Targets,
                       lastAppliedTemplateDir = dir, applied[n][f] = modTime[dir][f],
                       <<t, n, f>> \notin missed,
                       sync.pc \in {"target", "patch"} => <<n, f>> # <<sync.namespace, sync.file>>
                PROVE  Agree(object[t][n][f], Wanted(n, f),
                             IF n \in outdated THEN {"spec", "extra"} ELSE {"spec", "extra", "values"})
    BY Zenon DEF CacheIsRight
  <2>1. applied[n][f] # 0
    BY Zenon DEF ClusterInv, CacheOK
  <2>2. ~BusyWith(sync, n, f)
    BY Zenon DEF BusyWith
  <2>. QED  BY <2>1, <2>2, Zenon DEF ClusterInv, CachedIsHeld, Wanted, FieldsOf
<1>. QED  BY <1>1, ControllerInvariance, PTL

=============================================================================
