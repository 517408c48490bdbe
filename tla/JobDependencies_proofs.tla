------------------------ MODULE JobDependencies_proofs ------------------------
(***************************************************************************)
(* The dependency graph stays acyclic whatever the number of jobs, a job is *)
(* leased after its dependencies although the lease checks none, and the    *)
(* cascade cancels exactly the jobs that can never run.                     *)
(*                                                                          *)
(* Every action adds edges from outside a set of jobs into it, a set no     *)
(* edge leaves: the jobs the new dependency waits for (what the cycle check *)
(* computes), or jobs that did not exist before.  Barrier is that argument; *)
(* the rest of that part is which set it is for each action.                *)
(*                                                                          *)
(* The second part follows the jobs a scan found runnable: what an open     *)
(* recovery gate says about its original is why no handler can take a       *)
(* satisfied dependency away from them.                                     *)
(*                                                                          *)
(* The third part is the cascade: what its passes compute is the least set  *)
(* of jobs closed under having a dead dependency.                           *)
(***************************************************************************)
EXTENDS JobDependencies, TLAPS, FiniteSetTheorems, WellFoundedInduction

WF(E) == \A S \in SUBSET Jobs : S # {} => \E j \in S : From(E, j) \cap S = {}

\* A gate is for a job that exists.
GateHasJob == \A g \in Jobs : gate[g] # "none" => orig[g] \in Jobs /\ Exists(orig[g])

IInv == TypeOK /\ GateHasJob /\ Acyclic

-----------------------------------------------------------------------------
(* Graphs.                                                                  *)

\* What dep_chain returns contains the direct dependencies and is closed.
LEMMA ChainIsClosed ==
  ASSUME NEW E, NEW a
  PROVE  /\ Chain(E, a) \subseteq Jobs
         /\ From(E, a) \subseteq Chain(E, a)
         /\ (E \subseteq Edges => Closed(E, Chain(E, a)))
<1>1. Chain(E, a) \subseteq Jobs /\ From(E, a) \subseteq Chain(E, a)
  BY DEF Chain, From
<1>2. ASSUME E \subseteq Edges, NEW e \in E, e[1] \in Chain(E, a)
      PROVE  e[2] \in Chain(E, a)
  <2>1. e[2] \in Jobs
    BY <1>2 DEF Edges
  <2>2. ASSUME NEW S \in SUBSET Jobs, From(E, a) \subseteq S, Closed(E, S)
        PROVE  e[2] \in S
    <3>1. e[1] \in S
      BY <1>2, <2>2 DEF Chain
    <3>2. QED
      BY <3>1, <2>2 DEF Closed
  <2>3. QED
    BY <2>1, <2>2 DEF Chain
<1>3. QED
  BY <1>1, <1>2 DEF Closed

\* Edges into a closed set from outside it close no cycle.
LEMMA Barrier ==
  ASSUME NEW E, NEW N \in SUBSET Edges, NEW T \in SUBSET Jobs, NEW F,
         WF(E), Closed(E, T), F \subseteq E \cup N,
         \A e \in N : e[1] \notin T /\ e[2] \in T
  PROVE  WF(F)
<1> SUFFICES ASSUME NEW S \in SUBSET Jobs, S # {},
                    \A j \in S : From(F, j) \cap S # {}
             PROVE  FALSE
  BY DEF WF
<1>1. ASSUME NEW j \in S
      PROVE  \E k \in S : <<j, k>> \in E \/ <<j, k>> \in N
  BY <1>1 DEF From
<1>2. CASE S \cap T = {}
  <2>1. ASSUME NEW j \in S
        PROVE  From(E, j) \cap S # {}
    <3>1. PICK k \in S : <<j, k>> \in E \/ <<j, k>> \in N
      BY <1>1
    <3>2. <<j, k>> \notin N
      BY <1>2, <3>1
    <3>3. QED
      BY <3>1, <3>2 DEF From
  <2>2. QED
    BY <2>1 DEF WF
<1>3. CASE S \cap T # {}
  <2> DEFINE U == S \cap T
  <2>1. ASSUME NEW j \in U
        PROVE  From(E, j) \cap U # {}
    <3>1. PICK k \in S : <<j, k>> \in E \/ <<j, k>> \in N
      BY <1>1
    <3>2. <<j, k>> \in E
      BY <3>1
    <3>3. k \in T
      BY <3>2 DEF Closed
    <3>4. QED
      BY <3>1, <3>2, <3>3 DEF From
  <2>2. U \in SUBSET Jobs /\ U # {}
    BY <1>3
  <2>3. QED
    BY <2>1, <2>2 DEF WF
<1>4. QED
  BY <1>2, <1>3

\* The edges of j to jobs that Cycle accepted: a rewire of one job, or of
\* several to one job.
LEMMA CheckedEdges ==
  ASSUME NEW E \in SUBSET Edges, NEW J \in SUBSET Jobs, NEW R \in SUBSET Jobs, NEW F,
         WF(E), F \subseteq E \cup (J \X R),
         \A j \in J, r \in R : ~Cycle(E, j, r)
  PROVE  WF(F)
<1> DEFINE T == R \cup {k \in Jobs : \E r \in R : k \in Chain(E, r)}
<1>1. Closed(E, T)
  <2>1. ASSUME NEW e \in E, e[1] \in T
        PROVE  e[2] \in T
    <3>1. e[1] \in Jobs /\ e[2] \in Jobs /\ e = <<e[1], e[2]>>
      BY DEF Edges
    <3>2. CASE e[1] \in R
      <4>1. e[2] \in From(E, e[1])
        BY <3>1 DEF From
      <4>2. QED
        BY <3>1, <3>2, <4>1, ChainIsClosed
    <3>3. CASE e[1] \notin R
      <4>1. PICK r \in R : e[1] \in Chain(E, r)
        BY <2>1, <3>3
      <4>2. Closed(E, Chain(E, r))
        BY ChainIsClosed
      <4>3. e[2] \in Chain(E, r)
        BY <4>1, <4>2 DEF Closed
      <4>4. QED
        BY <3>1, <4>3
    <3>4. QED
      BY <3>2, <3>3
  <2>2. QED
    BY <2>1 DEF Closed
<1>2. \A e \in J \X R : e[1] \notin T /\ e[2] \in T
  BY DEF Cycle
<1>3. T \in SUBSET Jobs /\ J \X R \in SUBSET Edges
  BY DEF Edges
<1> HIDE DEF T
<1>4. QED
  BY <1>1, <1>2, <1>3, Barrier

\* Part of the edges of a graph.
LEMMA FewerEdges ==
  ASSUME NEW E, NEW F, F \subseteq E, WF(E)
  PROVE  WF(F)
<1> SUFFICES ASSUME NEW S \in SUBSET Jobs, S # {}
             PROVE  \E j \in S : From(F, j) \cap S = {}
  BY DEF WF
<1>1. PICK j \in S : From(E, j) \cap S = {}
  BY DEF WF
<1>2. QED
  BY <1>1 DEF From

-----------------------------------------------------------------------------
(* The parts of the type invariant, and what an insertion does to them.      *)

StatusOK == status \in [Jobs -> Statuses]
GraphOK ==
  /\ hard \subseteq Edges /\ soft \subseteq Edges
  /\ hard \cap soft = {}
  /\ \A e \in hard \cup soft : status[e[1]] # "absent" /\ status[e[2]] # "absent"
RestOK ==
  /\ picked \subseteq Jobs
  /\ orig \in [Jobs -> Jobs \cup {NoJob}]
  /\ gate \in [Jobs -> GateKinds]
  /\ mid \in Jobs \cup {NoJob}
  /\ edits \in 0..MaxEdits /\ stale \in BOOLEAN /\ crashes \in 0..MaxCrashes

\* No job disappears.
Grows == \A j \in Jobs : status[j] # "absent" => status'[j] # "absent"

\* The invariant by its parts.
LEMMA Parts == IInv <=> StatusOK /\ GraphOK /\ RestOK /\ GateHasJob /\ WF(Graph)
  BY DEF IInv, TypeOK, StatusOK, GraphOK, RestOK, Acyclic, WF, Graph

\* The same for the next state.
LEMMA PartsPrimed ==
  ASSUME StatusOK', GraphOK', RestOK', GateHasJob', WF(hard' \cup soft')
  PROVE  IInv'
  BY DEF IInv, TypeOK, StatusOK, GraphOK, RestOK, Acyclic, WF, Graph

\* A step that leaves the graph alone.
LEMMA SameGraph ==
  ASSUME GraphOK, WF(Graph), Grows, UNCHANGED graph
  PROVE  GraphOK' /\ WF(hard' \cup soft')
<1>1. hard' = hard /\ soft' = soft
  BY DEF graph
<1>2. GraphOK'
  BY <1>1 DEF GraphOK, Grows, Edges
<1>3. WF(hard' \cup soft')
  BY <1>1 DEF Graph
<1>4. QED
  BY <1>2, <1>3

\* An insertion of edges between jobs that exist afterwards.
LEMMA InsertEffect ==
  ASSUME GraphOK, Grows, NEW D, NEW newHard \in SUBSET Edges, NEW newSoft \in SUBSET Edges,
         Insert(D, newHard, newSoft),
         \A e \in newHard \cup newSoft : status'[e[1]] # "absent" /\ status'[e[2]] # "absent"
  PROVE  /\ GraphOK'
         /\ hard' \cup soft' \subseteq Graph \cup newHard \cup newSoft
<1>1. /\ hard' \subseteq hard \cup newHard
      /\ soft' \subseteq soft \cup newSoft
      /\ hard' \cap soft' = {}
  BY DEF Insert
<1>2. hard' \subseteq Edges /\ soft' \subseteq Edges
  BY <1>1 DEF GraphOK
<1>3. \A e \in hard' \cup soft' : status'[e[1]] # "absent" /\ status'[e[2]] # "absent"
  BY <1>1 DEF GraphOK, Grows, Edges
<1>4. GraphOK'
  BY <1>1, <1>2, <1>3 DEF GraphOK
<1>5. hard' \cup soft' \subseteq Graph \cup newHard \cup newSoft
  BY <1>1 DEF Graph
<1>6. QED
  BY <1>4, <1>5

\* What a rewire does: edges to accepted jobs of R, and the extra ones.
LEMMA RewireEffect ==
  ASSUME GraphOK, Grows, NEW S \in SUBSET Jobs, NEW old, NEW R \in SUBSET Jobs, NEW H,
         NEW extra \in SUBSET Edges, Rewire(S, old, R, H, extra),
         \A j \in S : status'[j] # "absent",
         \A r \in R : status'[r] # "absent",
         \A e \in extra : status'[e[1]] # "absent" /\ status'[e[2]] # "absent"
  PROVE  /\ GraphOK'
         /\ hard' \cup soft' \subseteq
              Graph \cup extra \cup {x \in S \X R : ~Cycle(Graph, x[1], x[2])}
<1> DEFINE moved == Rewirable(S, R)
           new == {x \in moved \X R : x[2] \in Accepted(x[1], R)}
           newHard == {x \in new : x[1] \in H} \cup extra
           newSoft == {x \in new : x[1] \notin H}
<1>1. Insert(moved \X {old}, newHard, newSoft)
  BY DEF Rewire
<1>2. new \subseteq {x \in S \X R : ~Cycle(Graph, x[1], x[2])}
  BY DEF Rewirable, Accepted
<1>3. newHard \in SUBSET Edges /\ newSoft \in SUBSET Edges
  BY <1>2 DEF Edges
<1>4. \A e \in newHard \cup newSoft : status'[e[1]] # "absent" /\ status'[e[2]] # "absent"
  BY <1>2
<1>5. newHard \cup newSoft \subseteq extra \cup {x \in S \X R : ~Cycle(Graph, x[1], x[2])}
  BY <1>2
<1> HIDE DEF moved, new, newHard, newSoft
<1>6. GraphOK' /\ hard' \cup soft' \subseteq Graph \cup newHard \cup newSoft
  BY <1>1, <1>3, <1>4, InsertEffect
<1>7. QED
  BY <1>5, <1>6

\* Rewires to one job, or of one job.
LEMMA RewireToOne ==
  ASSUME GraphOK, Grows, WF(Graph), NEW S \in SUBSET Jobs, NEW old, NEW r \in Jobs, NEW H,
         Rewire(S, old, {r}, H, {}),
         \A j \in S : status'[j] # "absent", status'[r] # "absent"
  PROVE  GraphOK' /\ WF(hard' \cup soft')
<1> DEFINE R == {r}
           none == {}
           J == {j \in S : ~Cycle(Graph, j, r)}
           F == hard' \cup soft'
<1>1. /\ R \in SUBSET Jobs /\ none \in SUBSET Edges
      /\ \A i \in R : status'[i] # "absent"
      /\ \A e \in none : status'[e[1]] # "absent" /\ status'[e[2]] # "absent"
      /\ Rewire(S, old, R, H, none)
  OBVIOUS
<1>2. Graph \in SUBSET Edges /\ J \in SUBSET Jobs
  BY DEF GraphOK, Graph
<1>3. \A j \in J, i \in R : ~Cycle(Graph, j, i)
  OBVIOUS
<1>4. /\ GraphOK'
      /\ F \subseteq Graph \cup none \cup {x \in S \X R : ~Cycle(Graph, x[1], x[2])}
  <2> HIDE DEF R, none, J
  <2>1. QED
    BY <1>1, RewireEffect
<1>5. F \subseteq Graph \cup (J \X R)
  BY <1>4
<1>6. WF(F)
  <2> HIDE DEF R, none, J, F
  <2>1. QED
    BY <1>1, <1>2, <1>3, <1>5, CheckedEdges
<1>7. QED
  BY <1>4, <1>6

\* The other case: the rewire of one job to several.
LEMMA RewireOne ==
  ASSUME GraphOK, Grows, WF(Graph), NEW j \in Jobs, NEW old, NEW R \in SUBSET Jobs, NEW H,
         Rewire({j}, old, R, H, {}),
         status'[j] # "absent", \A r \in R : status'[r] # "absent"
  PROVE  GraphOK' /\ WF(hard' \cup soft')
<1> DEFINE S == {j}
           none == {}
           A == {r \in R : ~Cycle(Graph, j, r)}
           F == hard' \cup soft'
<1>1. /\ S \in SUBSET Jobs /\ none \in SUBSET Edges
      /\ \A i \in S : status'[i] # "absent"
      /\ \A e \in none : status'[e[1]] # "absent" /\ status'[e[2]] # "absent"
      /\ Rewire(S, old, R, H, none)
  OBVIOUS
<1>2. Graph \in SUBSET Edges /\ A \in SUBSET Jobs
  BY DEF GraphOK, Graph
<1>3. \A i \in S, r \in A : ~Cycle(Graph, i, r)
  OBVIOUS
<1>4. /\ GraphOK'
      /\ F \subseteq Graph \cup none \cup {x \in S \X R : ~Cycle(Graph, x[1], x[2])}
  <2> HIDE DEF S, none, A
  <2>1. QED
    BY <1>1, RewireEffect
<1>5. F \subseteq Graph \cup (S \X A)
  BY <1>4
<1>6. WF(F)
  <2> HIDE DEF S, none, A, F
  <2>1. QED
    BY <1>1, <1>2, <1>3, <1>5, CheckedEdges
<1>7. QED
  BY <1>4, <1>6

\* A rewire to jobs that are created with it, perhaps behind gates.
LEMMA RewireToNew ==
  ASSUME GraphOK, Grows, WF(Graph), NEW S \in SUBSET Jobs, NEW old,
         NEW R \in SUBSET Fresh, NEW G \in SUBSET Fresh, R \cap G = {}, NEW H,
         Rewire(S, old, R, H, R \X G),
         \A j \in S : Exists(j), \A i \in R \cup G : status'[i] # "absent"
  PROVE  GraphOK' /\ WF(hard' \cup soft')
<1> DEFINE extra == R \X G
           E == Graph \cup extra
           T == R \cup G
           N == S \X R
           F == hard' \cup soft'
<1>1. /\ R \in SUBSET Jobs /\ G \in SUBSET Jobs /\ T \in SUBSET Jobs
      /\ extra \in SUBSET Edges /\ N \in SUBSET Edges
  BY DEF Fresh, With, Edges
<1>2. \A e \in Graph : e[1] \notin T
  BY DEF GraphOK, Graph, Fresh, With
<1>3. \A j \in S : j \notin T /\ status'[j] # "absent"
  BY DEF Fresh, With, Exists, Grows
<1>4. WF(E)
  <2>1. Closed(Graph, G)
    BY <1>2 DEF Closed
  <2>2. \A e \in extra : e[1] \notin G /\ e[2] \in G
    OBVIOUS
  <2>3. E \subseteq Graph \cup extra
    OBVIOUS
  <2> HIDE DEF extra, E
  <2>4. QED
    BY <1>1, <2>1, <2>2, <2>3, Barrier
<1>5. /\ GraphOK'
      /\ F \subseteq Graph \cup extra \cup {x \in S \X R : ~Cycle(Graph, x[1], x[2])}
  <2>1. \A e \in extra : status'[e[1]] # "absent" /\ status'[e[2]] # "absent"
    OBVIOUS
  <2>2. (\A r \in R : status'[r] # "absent") /\ Rewire(S, old, R, H, extra)
    OBVIOUS
  <2> HIDE DEF extra
  <2>3. QED
    BY <1>1, <1>3, <2>1, <2>2, RewireEffect
<1>6. WF(F)
  <2>1. Closed(E, T)
    BY <1>2 DEF Closed
  <2>2. \A e \in N : e[1] \notin T /\ e[2] \in T
    BY <1>3
  <2>3. F \subseteq E \cup N
    BY <1>5
  <2> HIDE DEF E, T, N, F
  <2>4. QED
    BY <1>1, <1>4, <2>1, <2>2, <2>3, Barrier
<1>7. QED
  BY <1>5, <1>6

\* The copy of a dead-lettered job: it gets the dependencies and then the
\* dependents of others.
LEMMA CopyEffect ==
  ASSUME GraphOK, Grows, WF(Graph), NEW n \in Fresh, NEW g \in Jobs,
         NEW newHard, NEW newSoft, NEW K \in SUBSET Jobs, NEW M \in SUBSET Jobs,
         Insert(M \X {g}, newHard, newSoft), status'[n] # "absent",
         newHard \cup newSoft \subseteq (M \X {n}) \cup ({n} \X K),
         \A d \in K : Exists(d),
         \A i \in M : Exists(i) /\ \A d \in K : ~Cycle(Graph, i, d)
  PROVE  GraphOK' /\ WF(hard' \cup soft')
<1> DEFINE N1 == {n} \X K
           N2 == M \X {n}
           E == Graph \cup N1
           T1 == Jobs \ {n}
           T2 == {n} \cup K \cup {k \in Jobs : \E d \in K : k \in Chain(Graph, d)}
           D == M \X {g}
           F == hard' \cup soft'
<1>1. /\ n \in Jobs /\ N1 \in SUBSET Edges /\ N2 \in SUBSET Edges
      /\ T1 \in SUBSET Jobs /\ T2 \in SUBSET Jobs
      /\ n \notin K /\ n \notin M
  BY DEF Fresh, With, Edges, Exists
<1>2. \A e \in Graph : e[1] # n /\ e[2] # n /\ e \in Edges
  BY DEF GraphOK, Graph, Fresh, With
<1>3. newHard \in SUBSET Edges /\ newSoft \in SUBSET Edges
  BY <1>1
<1>4. \A e \in newHard \cup newSoft : status'[e[1]] # "absent" /\ status'[e[2]] # "absent"
  BY DEF Exists, Grows
<1>5. GraphOK' /\ F \subseteq Graph \cup newHard \cup newSoft
  <2> HIDE DEF D
  <2>1. QED
    BY <1>3, <1>4, InsertEffect DEF D
<1>6. WF(E)
  <2>1. Closed(Graph, T1)
    BY <1>2 DEF Closed, Edges
  <2>2. \A e \in N1 : e[1] \notin T1 /\ e[2] \in T1
    BY <1>1
  <2>3. E \subseteq Graph \cup N1
    OBVIOUS
  <2> HIDE DEF N1, E, T1
  <2>4. QED
    BY <1>1, <2>1, <2>2, <2>3, Barrier
<1>7. Closed(E, T2)
  <2>1. ASSUME NEW e \in E, e[1] \in T2
        PROVE  e[2] \in T2
    <3>1. CASE e \in N1
      BY <3>1
    <3>2. CASE e \in Graph
      <4>1. /\ e[1] \in Jobs /\ e[2] \in Jobs /\ e = <<e[1], e[2]>>
            /\ e[1] # n
        BY <1>2, <3>2 DEF Edges
      <4>2. PICK d \in K : e[1] = d \/ e[1] \in Chain(Graph, d)
        BY <2>1, <4>1
      <4>3. /\ From(Graph, d) \subseteq Chain(Graph, d)
            /\ Closed(Graph, Chain(Graph, d))
        <5>1. Graph \subseteq Edges
          BY DEF GraphOK, Graph
        <5>2. QED
          BY <5>1, ChainIsClosed
      <4>4. e[2] \in Chain(Graph, d)
        <5>1. CASE e[1] = d
          BY <5>1, <3>2, <4>1, <4>3 DEF From
        <5>2. CASE e[1] \in Chain(Graph, d)
          BY <5>2, <3>2, <4>3 DEF Closed
        <5>3. QED
          BY <4>2, <5>1, <5>2
      <4>5. QED
        BY <4>1, <4>4
    <3>3. QED
      BY <3>1, <3>2
  <2>2. QED
    BY <2>1 DEF Closed
<1>8. WF(F)
  <2>1. \A e \in N2 : e[1] \notin T2 /\ e[2] \in T2
    BY <1>1 DEF Cycle
  <2>2. F \subseteq E \cup N2
    BY <1>5
  <2> HIDE DEF E, T2, N2, F
  <2>3. QED
    BY <1>1, <1>6, <1>7, <2>1, <2>2, Barrier
<1>9. QED
  BY <1>5, <1>8

-----------------------------------------------------------------------------
(* The invariant.                                                           *)

\* The empty graph.
LEMMA InitIInv == Init => IInv
<1> SUFFICES ASSUME Init PROVE IInv
  OBVIOUS
<1> USE DependencyConstants DEF Init
<1>1. StatusOK
  BY DEF StatusOK, Statuses
<1>2. GraphOK
  BY DEF GraphOK, Edges
<1>3. RestOK
  <2>1. orig \in [Jobs -> Jobs \cup {NoJob}] /\ gate \in [Jobs -> GateKinds]
    BY DEF GateKinds
  <2>2. edits \in 0..MaxEdits /\ crashes \in 0..MaxCrashes
    OBVIOUS
  <2>3. stale \in BOOLEAN
    OBVIOUS
  <2>4. picked \subseteq Jobs /\ mid \in Jobs \cup {NoJob}
    OBVIOUS
  <2>5. QED
    BY <2>1, <2>2, <2>3, <2>4 DEF RestOK
<1>4. GateHasJob
  BY DEF GateHasJob
<1>5. WF(Graph)
  BY DEF WF, Graph, From
<1>6. QED
  BY <1>1, <1>2, <1>3, <1>4, <1>5, Parts

\* What each step keeps, by the part of Next it belongs to.
LEMMA CallerKeeps == IInv /\ Caller => IInv'
<1> SUFFICES ASSUME IInv, Caller PROVE IInv'
  OBVIOUS
<1> USE DependencyConstants
<1>1. StatusOK /\ GraphOK /\ RestOK /\ GateHasJob /\ WF(Graph)
  BY Parts
<1>2. ASSUME NEW j \in Jobs, createJob(j)
      PROVE  IInv'
  <2>1. StatusOK' /\ Grows
    BY <1>1, <1>2 DEF createJob, StatusOK, Statuses, Grows
  <2>2. RestOK' /\ GateHasJob'
    BY <1>1, <1>2, <2>1 DEF createJob, RestOK, GateHasJob, Exists, Grows, gates, counts
  <2>3. UNCHANGED graph
    BY <1>2 DEF createJob
  <2>4. QED
    BY <1>1, <2>1, <2>2, <2>3, SameGraph, PartsPrimed
<1>3. ASSUME Edit, edits < MaxEdits, GraphOK', WF(hard' \cup soft')
      PROVE  IInv'
  <2>1. StatusOK'
    BY <1>1, <1>3 DEF Edit, StatusOK
  <2>2. RestOK'
    BY <1>1, <1>3 DEF Edit, RestOK, gates
  <2>3. GateHasJob'
    BY <1>1, <1>3 DEF Edit, GateHasJob, Exists, gates
  <2>4. QED
    BY <1>3, <2>1, <2>2, <2>3, PartsPrimed
<1>4. ASSUME Edit
      PROVE  Grows /\ \A j \in Jobs : Exists(j) => status'[j] # "absent"
  BY <1>4 DEF Edit, Grows, Exists
<1>5. ASSUME NEW j \in Jobs, NEW d \in Jobs, NEW k \in Kinds, addDependency(j, d, k)
      PROVE  IInv'
  <2> DEFINE h == Only(k = "hard", <<j, d>>)
             s == Only(k = "soft", <<j, d>>)
             F == hard' \cup soft'
             J == {j}
             R == {d}
  <2>1. /\ Edit /\ edits < MaxEdits /\ Exists(j) /\ Exists(d) /\ ~Cycle(Graph, j, d)
        /\ Insert({}, h, s)
    BY <1>5 DEF addDependency
  <2>2. h \cup s \subseteq {<<j, d>>} /\ h \in SUBSET Edges /\ s \in SUBSET Edges
    BY DEF Only, Edges
  <2>3. \A e \in h \cup s : status'[e[1]] # "absent" /\ status'[e[2]] # "absent"
    BY <1>4, <2>1, <2>2
  <2>4. GraphOK' /\ F \subseteq Graph \cup h \cup s
    <3> HIDE DEF h, s
    <3>1. QED
      BY <1>1, <1>4, <2>1, <2>2, <2>3, InsertEffect
  <2>5. F \subseteq Graph \cup (J \X R)
    BY <2>2, <2>4
  <2>6. /\ \A i \in J, r \in R : ~Cycle(Graph, i, r)
        /\ J \in SUBSET Jobs /\ R \in SUBSET Jobs /\ Graph \in SUBSET Edges
    BY <1>1, <2>1 DEF GraphOK, Graph
  <2>7. WF(F)
    <3> HIDE DEF J, R, F
    <3>1. QED
      BY <1>1, <2>5, <2>6, CheckedEdges
  <2>8. QED
    BY <1>3, <2>1, <2>4, <2>7
<1>6. ASSUME NEW j \in Jobs, NEW d \in Jobs, removeDependency(j, d)
      PROVE  IInv'
  <2>1. Edit /\ edits < MaxEdits /\ hard' \subseteq hard /\ soft' \subseteq soft
    BY <1>6 DEF removeDependency
  <2>2. GraphOK'
    BY <1>1, <2>1 DEF GraphOK, Edit
  <2>3. WF(hard' \cup soft')
    BY <1>1, <2>1, FewerEdges DEF Graph
  <2>4. QED
    BY <1>3, <2>1, <2>2, <2>3
<1>7. ASSUME NEW j \in Jobs, NEW old \in Jobs, NEW R \in SUBSET Jobs, NEW k \in Kinds,
             rewireDependencyChain(j, old, R, k)
      PROVE  IInv'
  <2>1. /\ Edit /\ edits < MaxEdits /\ Exists(j)
        /\ \A r \in R : Exists(r)
        /\ Rewire({j}, old, R, Only(k = "hard", j), {})
    BY <1>1, <1>7 DEF rewireDependencyChain, GraphOK, Graph, Exists
  <2>2. status'[j] # "absent" /\ \A r \in R : status'[r] # "absent"
    BY <1>4, <2>1
  <2>3. GraphOK' /\ WF(hard' \cup soft')
    BY <1>1, <1>4, <2>1, <2>2, RewireOne
  <2>4. QED
    BY <1>3, <2>1, <2>3
<1>8. ASSUME NEW x \in Graph
      PROVE  x[1] \in Jobs /\ x[2] \in Jobs
  BY <1>1 DEF Graph, GraphOK, Edges
<1>9. QED
  BY <1>2, <1>5, <1>6, <1>7, <1>8 DEF Caller

\* A step that changes statuses only, besides what RestOK is about.
LEMMA StatusStep ==
  ASSUME IInv, StatusOK', Grows, UNCHANGED graph, UNCHANGED gates, RestOK'
  PROVE  IInv'
<1>1. StatusOK /\ GraphOK /\ RestOK /\ GateHasJob /\ WF(Graph)
  BY Parts
<1>2. GateHasJob'
  BY <1>1 DEF GateHasJob, Exists, Grows, gates
<1>3. GraphOK' /\ WF(hard' \cup soft')
  BY <1>1, SameGraph
<1>4. QED
  BY <1>2, <1>3, PartsPrimed

\* Scans, leases, the cascade and crashes change statuses only.
LEMMA LapKeeps == IInv /\ (Lap \/ crash) => IInv'
<1> SUFFICES ASSUME IInv, Lap \/ crash PROVE IInv'
  OBVIOUS
<1> USE DependencyConstants
<1>1. StatusOK /\ GraphOK /\ RestOK /\ GateHasJob /\ WF(Graph)
  BY Parts
<1>2. CASE scan
  <2>1. StatusOK' /\ Grows
    BY <1>1, <1>2 DEF scan, StatusOK, Grows
  <2>2. picked' \subseteq Jobs /\ stale' \in BOOLEAN
    BY <1>2 DEF scan, Runnable, With
  <2>3. RestOK'
    BY <1>1, <1>2, <2>2 DEF scan, RestOK, gates
  <2>4. QED
    BY <1>2, <2>1, <2>3, StatusStep DEF scan
<1>3. ASSUME NEW j \in Jobs, lease(j)
      PROVE  IInv'
  <2>1. StatusOK' /\ Grows
    BY <1>1, <1>3 DEF lease, StatusOK, Statuses, Grows
  <2>2. RestOK'
    BY <1>1, <1>3 DEF lease, RestOK, gates, counts
  <2>3. QED
    BY <1>3, <2>1, <2>2, StatusStep DEF lease
<1>4. ASSUME NEW W \in WorkItems, cancelDeadlockedJobs(W)
      PROVE  IInv'
  <2>1. StatusOK' /\ Grows
    BY <1>1, <1>4 DEF cancelDeadlockedJobs, StatusOK, Statuses, Grows
  <2>2. RestOK'
    BY <1>1, <1>4 DEF cancelDeadlockedJobs, RestOK, gates, counts
  <2>3. QED
    BY <1>4, <2>1, <2>2, StatusStep DEF cancelDeadlockedJobs
<1>5. CASE crash
  <2>1. StatusOK' /\ Grows
    BY <1>1, <1>5 DEF crash, StatusOK, Statuses, Grows
  <2>2. RestOK'
    BY <1>1, <1>5 DEF crash, RestOK, gates
  <2>3. QED
    BY <1>5, <2>1, <2>2, StatusStep DEF crash
<1>6. QED
  BY <1>2, <1>3, <1>4, <1>5 DEF Lap

\* The second steps of the handlers.
LEMMA ContinueKeeps == ASSUME IInv, NEW j \in Jobs, Continue(j) PROVE IInv'
<1> USE DependencyConstants
<1>1. StatusOK /\ GraphOK /\ RestOK /\ GateHasJob /\ WF(Graph)
  BY Parts
<1>2. CASE releaseDeadLetter(j)
  <2>1. StatusOK' /\ Grows
    BY <1>1, <1>2 DEF releaseDeadLetter, StatusOK, Statuses, Grows
  <2>2. RestOK'
    BY <1>1, <1>2 DEF releaseDeadLetter, RestOK, gates, counts
  <2>3. QED
    BY <1>2, <2>1, <2>2, StatusStep DEF releaseDeadLetter
<1>3. ASSUME NEW s \in {"queued", "failed"}, setOriginal(j, s)
      PROVE  IInv'
  <2>1. StatusOK' /\ Grows
    BY <1>1, <1>3 DEF setOriginal, StatusOK, Statuses, Grows
  <2>2. RestOK'
    BY <1>1, <1>3 DEF setOriginal, RestOK, gates, counts
  <2>3. QED
    BY <1>3, <2>1, <2>2, StatusStep DEF setOriginal
<1>4. ASSUME NEW g \in Fresh, blockedRewire(j, g)
      PROVE  IInv'
  <2>1. /\ g \in Jobs /\ status[g] = "absent" /\ status[j] = "failed"
        /\ NewGate(g, j, "blocked")
        /\ status' = [status EXCEPT ![g] = "queued"]
        /\ Rewire(Dependents(j), j, {g}, HardDependents(j), {})
        /\ mid' = NoJob
        /\ UNCHANGED <<picked, counts>>
    BY <1>4 DEF blockedRewire, Fresh, With
  <2>2. StatusOK' /\ Grows
    BY <1>1, <2>1 DEF StatusOK, Statuses, Grows
  <2>3. RestOK'
    BY <1>1, <2>1 DEF RestOK, NewGate, GateKinds, counts
  <2>4. GateHasJob'
    BY <1>1, <2>1, <2>2 DEF GateHasJob, NewGate, Exists, Grows, StatusOK, RestOK
  <2>5. QED
    <3>1. Dependents(j) \in SUBSET Jobs /\ \A i \in Dependents(j) : status'[i] # "absent"
      BY <1>1, <2>2 DEF Dependents, GraphOK, Grows, Graph
    <3>2. status'[g] # "absent"
      BY <1>1, <2>1 DEF StatusOK
    <3>3. GraphOK' /\ WF(hard' \cup soft')
      BY <1>1, <2>1, <2>2, <3>1, <3>2, RewireToOne
    <3>4. QED
      BY <2>2, <2>3, <2>4, <3>3, PartsPrimed
<1>5. QED
  BY <1>2, <1>3, <1>4 DEF Continue

\* A step that spawns gate g for job j and moves the dependents of j to it.
LEMMA GateStep ==
  ASSUME IInv, NEW j \in Jobs, NEW g \in Fresh, NEW kind \in GateKinds, NEW H,
         Exists(j), StatusOK', Grows, status'[g] # "absent",
         NewGate(g, j, kind), Rewire(Dependents(j), j, {g}, H, {}), RestOK'
  PROVE  IInv'
<1>1. StatusOK /\ GraphOK /\ RestOK /\ GateHasJob /\ WF(Graph)
  BY Parts
<1>2. GateHasJob'
  BY <1>1 DEF GateHasJob, NewGate, Exists, Grows, StatusOK, RestOK, Fresh, With
<1>3. Dependents(j) \in SUBSET Jobs /\ \A i \in Dependents(j) : status'[i] # "absent"
  BY <1>1 DEF Dependents, GraphOK, Grows, Graph
<1>4. g \in Jobs
  BY DEF Fresh, With
<1>5. GraphOK' /\ WF(hard' \cup soft')
  BY <1>1, <1>3, <1>4, RewireToOne
<1>6. QED
  BY <1>2, <1>5, PartsPrimed

\* Verdicts, gates and answers: the steps that replace jobs.
LEMMA OutcomeKeeps == ASSUME IInv, NEW j \in Jobs, Outcome(j) PROVE IInv'
<1> USE DependencyConstants
<1>1. StatusOK /\ GraphOK /\ RestOK /\ GateHasJob /\ WF(Graph)
  BY Parts
<1>2. CASE succeed(j)
  <2>1. StatusOK' /\ Grows
    BY <1>1, <1>2 DEF succeed, StatusOK, Statuses, Grows
  <2>2. RestOK'
    BY <1>1, <1>2 DEF succeed, RestOK, gates, counts
  <2>3. QED
    BY <1>2, <2>1, <2>2, StatusStep DEF succeed
<1>3. CASE fail(j)
  <2>1. StatusOK' /\ Grows
    BY <1>1, <1>3 DEF fail, StatusOK, Statuses, Grows
  <2>2. RestOK'
    BY <1>1, <1>3 DEF fail, RestOK, gates, counts
  <2>3. QED
    BY <1>3, <2>1, <2>2, StatusStep DEF fail
<1>4. CASE blockedRelease(j)
  <2>1. StatusOK' /\ Grows
    BY <1>1, <1>4 DEF blockedRelease, StatusOK, Statuses, Grows
  <2>2. RestOK'
    BY <1>1, <1>4 DEF blockedRelease, RestOK, gates, counts
  <2>3. QED
    BY <1>4, <2>1, <2>2, StatusStep DEF blockedRelease
<1>5. CASE confirmFailure(j)
  <2>1. StatusOK' /\ Grows
    BY <1>1, <1>5 DEF confirmFailure, StatusOK, Statuses, Grows
  <2>2. RestOK'
    BY <1>1, <1>5 DEF confirmFailure, RestOK, gates, counts
  <2>3. QED
    BY <1>5, <2>1, <2>2, StatusStep DEF confirmFailure
<1>6. ASSUME NEW s \in {"canceled", "succeeded"}, settleOriginal(j, s)
      PROVE  IInv'
  <2>1. StatusOK' /\ Grows
    BY <1>1, <1>6 DEF settleOriginal, StatusOK, Statuses, Grows
  <2>2. RestOK'
    BY <1>1, <1>6 DEF settleOriginal, RestOK, gates, counts
  <2>3. QED
    BY <1>6, <2>1, <2>2, StatusStep DEF settleOriginal
<1>7. CASE restoreGateDependentsToOriginal(j)
  <2> DEFINE o == orig[j]
  <2>1. /\ gate[j] = "blocked"
        /\ Rewire(Dependents(j), j, {o}, HardDependents(j), {})
        /\ mid' = j
        /\ UNCHANGED <<status, picked, gates, counts>>
    BY <1>7 DEF restoreGateDependentsToOriginal, ActiveGate
  <2>2. o \in Jobs /\ Exists(o)
    BY <1>1, <2>1 DEF GateHasJob
  <2>3. StatusOK' /\ Grows
    BY <1>1, <2>1 DEF StatusOK, Grows
  <2>4. GateHasJob'
    BY <1>1, <2>1 DEF GateHasJob, Exists, gates
  <2>5. RestOK'
    BY <1>1, <2>1 DEF RestOK, gates, counts
  <2>6. GraphOK' /\ WF(hard' \cup soft')
    <3>1. Dependents(j) \in SUBSET Jobs /\ \A i \in Dependents(j) : status'[i] # "absent"
      BY <1>1, <2>3 DEF Dependents, GraphOK, Grows, Graph
    <3>2. status'[o] # "absent"
      BY <2>1, <2>2 DEF Exists
    <3> HIDE DEF o
    <3>3. QED
      BY <1>1, <2>1, <2>2, <2>3, <3>1, <3>2, RewireToOne
  <2>7. QED
    BY <2>3, <2>4, <2>5, <2>6, PartsPrimed
<1>8. ASSUME NEW R \in SUBSET Fresh, NEW G \in SUBSET (Fresh \ R), failVerdict(j, R, G)
      PROVE  IInv'
  <2>1. /\ status[j] = "active" /\ G \in SUBSET Fresh /\ R \cap G = {}
        /\ status' = [i \in Jobs |-> IF i = j THEN "failed"
                                     ELSE IF i \in R \cup G THEN "queued" ELSE status[i]]
        /\ Rewire(Dependents(j), j, R, HardDependents(j), R \X G)
        /\ UNCHANGED <<picked, gates, mid, counts>>
    BY <1>8 DEF failVerdict, ActiveTask, Active
  <2>2. StatusOK' /\ Grows
    BY <1>1, <2>1 DEF StatusOK, Statuses, Grows
  <2>3. RestOK'
    BY <1>1, <2>1 DEF RestOK, gates, counts
  <2>4. GateHasJob'
    BY <1>1, <2>1, <2>2 DEF GateHasJob, Exists, Grows, gates
  <2>5. /\ Dependents(j) \in SUBSET Jobs /\ \A i \in Dependents(j) : Exists(i)
        /\ \A i \in R \cup G : status'[i] # "absent"
    BY <1>1, <2>1 DEF Dependents, GraphOK, Graph, Exists, Fresh, With
  <2>6. GraphOK' /\ WF(hard' \cup soft')
    BY <1>1, <2>1, <2>2, <2>5, RewireToNew
  <2>7. QED
    BY <2>2, <2>3, <2>4, <2>6, PartsPrimed
<1>9. ASSUME NEW g \in Fresh, spawnDeadLetterRecovery(j, g)
      PROVE  IInv'
  <2>1. /\ g \in Jobs /\ Exists(j) /\ NewGate(g, j, "deadLetter")
        /\ status' = [status EXCEPT ![g] = "queued"]
        /\ Rewire(Dependents(j), j, {g}, HardDependents(j), {})
        /\ mid' = j /\ UNCHANGED <<picked, counts>>
    BY <1>9 DEF spawnDeadLetterRecovery, ActiveTask, Active, Exists, Fresh, With
  <2>2. StatusOK' /\ Grows /\ status'[g] # "absent"
    BY <1>1, <2>1 DEF StatusOK, Statuses, Grows
  <2>3. RestOK'
    BY <1>1, <2>1 DEF RestOK, NewGate, GateKinds, counts
  <2>4. QED
    BY <2>1, <2>2, <2>3, GateStep DEF GateKinds
<1>10. ASSUME NEW g \in Fresh, parkBlockedRecoveryGate(j, g)
       PROVE  IInv'
  <2>1. /\ g \in Jobs /\ Exists(j) /\ NewGate(g, j, "blocked") /\ g # j
        /\ status' = [status EXCEPT ![j] = "failed", ![g] = "queued"]
        /\ Rewire(Dependents(j), j, {g}, Jobs, {})
        /\ UNCHANGED <<picked, mid, counts>>
    BY <1>10 DEF parkBlockedRecoveryGate, ActiveTask, Active, Exists, Fresh, With
  <2>2. StatusOK' /\ Grows /\ status'[g] # "absent"
    BY <1>1, <2>1 DEF StatusOK, Statuses, Grows
  <2>3. RestOK'
    BY <1>1, <2>1 DEF RestOK, NewGate, GateKinds, counts
  <2>4. QED
    BY <2>1, <2>2, <2>3, GateStep DEF GateKinds
<1>11. ASSUME NEW n \in Fresh, deadLetterRetry(j, n)
       PROVE  IInv'
  <2> DEFINE o == orig[j]
             needs(E) == {d \in Jobs : \E a \in Lineage(o) : <<a, d>> \in E}
             K == needs(Graph)
             M == {i \in Dependents(j) : \A d \in needs(Graph) : ~Cycle(Graph, i, d)}
             MH == M \cap HardDependents(j)
             newHard == (MH \X {n}) \cup ({n} \X needs(hard))
             newSoft == ((M \ MH) \X {n}) \cup ({n} \X needs(soft))
  <2>1. /\ gate[j] = "deadLetter" /\ status[j] = "active" /\ n \in Jobs /\ status[n] = "absent"
        /\ status' = [status EXCEPT ![n] = "queued", ![j] = "succeeded",
                                    ![o] = IF @ = "failed" THEN "canceled" ELSE @]
        /\ Insert(M \X {j}, newHard, newSoft)
        /\ orig' = [orig EXCEPT ![n] = o]
        /\ UNCHANGED <<picked, gate, mid, counts>>
    BY <1>11 DEF deadLetterRetry, ActiveGate, Active, Fresh, With
  <2>2. o \in Jobs /\ Exists(o)
    BY <1>1, <2>1 DEF GateHasJob
  <2>3. StatusOK' /\ Grows /\ status'[n] # "absent"
    BY <1>1, <2>1, <2>2 DEF StatusOK, Statuses, Grows, Exists
  <2>4. RestOK'
    BY <1>1, <2>1, <2>2 DEF RestOK, counts
  <2>5. GateHasJob'
    BY <1>1, <2>1, <2>2, <2>3 DEF GateHasJob, Exists, Grows, RestOK
  <2>6. /\ K \in SUBSET Jobs /\ M \in SUBSET Jobs
        /\ \A d \in K : Exists(d)
        /\ \A i \in M : Exists(i) /\ \A d \in K : ~Cycle(Graph, i, d)
    BY <1>1 DEF GraphOK, Graph, Exists, Dependents
  <2>7. newHard \cup newSoft \subseteq (M \X {n}) \cup ({n} \X K)
    BY DEF Graph
  <2>8. GraphOK' /\ WF(hard' \cup soft')
    <3>1. Insert(M \X {j}, newHard, newSoft) /\ status'[n] # "absent"
      BY <2>1, <2>3
    <3> HIDE DEF newHard, newSoft, K, M
    <3>2. QED
      BY <1>1, <2>3, <2>6, <2>7, <3>1, CopyEffect
  <2>9. QED
    BY <2>3, <2>4, <2>5, <2>8, PartsPrimed
<1>12. QED
  BY <1>2, <1>3, <1>4, <1>5, <1>6, <1>7, <1>8, <1>9, <1>10, <1>11 DEF Outcome

\* Every step keeps the invariant.
LEMMA NextKeeps == IInv /\ [Next]_vars => IInv'
<1>1. IInv /\ Next => IInv'
  BY CallerKeeps, LapKeeps, OutcomeKeeps, ContinueKeeps DEF Next
<1>2. ASSUME IInv, UNCHANGED vars
      PROVE  IInv'
  <2>1. StatusOK /\ RestOK
    BY <1>2, Parts
  <2>2. StatusOK' /\ Grows
    BY <1>2, <2>1 DEF vars, StatusOK, Grows
  <2>3. RestOK'
    BY <1>2, <2>1 DEF vars, RestOK, gates, counts
  <2>4. QED
    BY <1>2, <2>2, <2>3, StatusStep DEF vars
<1>3. QED
  BY <1>1, <1>2

\* The inductive invariant: types, edges between existing jobs only, gates with a
\* job, no cycle.
THEOREM IInvariance == Spec => []IInv
  BY InitIInv, NextKeeps, PTL DEF Spec

\* Edges connect jobs that exist, an edge has one kind, and every variable has
\* its type, for any number of jobs and edits.
THEOREM TypeCorrect == Spec => []TypeOK
<1>1. IInv => TypeOK
  BY DEF IInv
<1>2. QED
  BY <1>1, IInvariance, PTL

\* No sequence of additions, rewires, gates and retries closes a cycle, for any
\* number of jobs: the check each of them makes on its own is enough.
THEOREM GraphIsAcyclic == Spec => []Acyclic
<1>1. IInv => Acyclic
  BY DEF IInv
<1>2. QED
  BY <1>1, IInvariance, PTL

\* In any graph, whether an edge from j to d would close a cycle does not depend
\* on an edge that leaves j.
LEMMA EdgeOfSourceIrrelevant ==
  ASSUME NEW E \in SUBSET Edges, NEW e \in E, NEW d \in Jobs
  PROVE  Cycle(E, e[1], d) <=> Cycle(E \ {e}, e[1], d)
<1> DEFINE F == E \ {e}
           j == e[1]
<1>1. j \in Jobs
  BY DEF Edges
<1>2. ASSUME j # d, j \in Chain(F, d)
      PROVE  j \in Chain(E, d)
  <2>1. ASSUME NEW S \in SUBSET Jobs, From(E, d) \subseteq S, Closed(E, S)
        PROVE  j \in S
    <3>1. From(F, d) \subseteq S /\ Closed(F, S)
      BY <2>1 DEF From, Closed
    <3>2. QED
      BY <1>2, <3>1 DEF Chain
  <2>2. QED
    BY <1>1, <2>1 DEF Chain
<1>3. ASSUME j # d, j \in Chain(E, d)
      PROVE  j \in Chain(F, d)
  <2>1. ASSUME NEW S \in SUBSET Jobs, From(F, d) \subseteq S, Closed(F, S), j \notin S
        PROVE  FALSE
    <3>1. From(E, d) \subseteq S
      BY <1>3, <2>1 DEF From
    <3>2. Closed(E, S)
      BY <2>1 DEF Closed
    <3>3. QED
      BY <1>3, <2>1, <3>1, <3>2 DEF Chain
  <2>2. QED
    BY <1>1, <2>1 DEF Chain
<1>4. QED
  BY <1>2, <1>3 DEF Cycle

\* The comment in rewireDependency, "the old edge can't produce a false positive",
\* is right for every graph: the check may come before the deletion.
THEOREM CheckBeforeDelete == Spec => []OldEdgeIrrelevant
<1>1. TypeOK => OldEdgeIrrelevant
  <2>1. TypeOK => Graph \in SUBSET Edges
    BY DEF TypeOK, Graph
  <2>2. QED
    BY <2>1, EdgeOfSourceIrrelevant DEF OldEdgeIrrelevant
<1>2. QED
  BY <1>1, TypeCorrect, PTL

-----------------------------------------------------------------------------
(* Leasing behind a scan.  acquireLease looks at the status of a job the     *)
(* scan found runnable, and no more: that its dependencies still stand       *)
(* rests on what the handlers do meanwhile.  They move the dependents of     *)
(* active jobs, and requeue or cancel only the original of an open recovery  *)
(* gate, which has failed.                                                   *)

Live(g) == gate[g] # "none" /\ status[g] \in {"queued", "active"}
Waiting(j) == j \in picked /\ status[j] = "queued"
Busy(d) == status[d] = "active" \/ d = mid

\* Only a job that exists is a gate.
FreshIsPlain == \A j \in Jobs : status[j] = "absent" => gate[j] = "none"

\* The job a handler is in the middle of is still active, or has just been
\* dead-lettered and has no gate yet.
MidIsHandled ==
  mid # NoJob =>
    \/ status[mid] = "active"
    \/ /\ status[mid] = "failed" /\ gate[mid] = "none"
       /\ \A g \in Jobs : Live(g) => orig[g] # mid

\* An open gate stands for a job that failed, or is about to fail.
GateOfFailed ==
  \A g \in Jobs : Live(g) =>
    \/ status[orig[g]] = "failed"
    \/ mid = orig[g] /\ status[mid] = "active" /\ gate[mid] = "none"

\* A job has one open gate at most.
OneGateEach == \A g, h \in Jobs : Live(g) /\ Live(h) /\ orig[g] = orig[h] => g = h

\* A gate stands for a job that is no gate itself.
OrigIsTask == \A g \in Jobs : gate[g] # "none" => gate[orig[g]] = "none"

\* A job that was found runnable does not become anything but canceled before
\* it is leased.
PickedOnce == \A j \in picked : status[j] \in {"queued", "canceled"}

\* The jobs found runnable still are, unless an edit came after the scan; and
\* nothing they wait for softly is executed or about to be.
Ready ==
  ~stale => \A j \in picked : status[j] = "queued" =>
    /\ \A i \in From(hard, j) : status[i] = "succeeded"
    /\ \A i \in From(soft, j) : status[i] # "active" /\ i \notin picked /\ i # mid

GInv == FreshIsPlain /\ MidIsHandled /\ GateOfFailed /\ OneGateEach /\ OrigIsTask
LInv == IInv /\ GInv /\ PickedOnce /\ Ready

\* Nobody who waits for an active job, or for the one being handled, is among the
\* jobs found runnable.
LEMMA WaitingIsFree ==
  ASSUME MidIsHandled, Ready, ~stale, NEW j \in Jobs, Waiting(j), NEW d \in Jobs, Busy(d)
  PROVE  j \notin Dependents(d)
<1>1. status[d] # "succeeded"
  BY DependencyConstants DEF Busy, MidIsHandled
<1>2. <<j, d>> \notin hard
  BY <1>1 DEF Ready, Waiting, From
<1>3. <<j, d>> \notin soft
  BY DEF Ready, Waiting, From, Busy
<1>4. QED
  BY <1>2, <1>3 DEF Dependents, Graph

NewEdgesFrom(S) ==
  \A j, i \in Jobs : /\ <<j, i>> \in hard' => <<j, i>> \in hard \/ j \in S
                     /\ <<j, i>> \in soft' => <<j, i>> \in soft \/ j \in S

\* What keeps the runnable jobs runnable.
LEMMA ReadyKept ==
  ASSUME Ready, NEW S, NewEdgesFrom(S), picked \subseteq Jobs, picked' \subseteq picked,
         stale' = stale,
         \A j \in picked' : status'[j] = "queued" => status[j] = "queued",
         ~stale => \A j \in S : ~Waiting(j),
         \A i \in Jobs : status[i] = "succeeded" => status'[i] = "succeeded",
         \A i \in Jobs : Busy(i)' => Busy(i) \/ i \in picked
  PROVE  Ready'
<1> SUFFICES ASSUME ~stale', NEW j \in picked', status'[j] = "queued"
             PROVE  /\ \A i \in From(hard', j) : status'[i] = "succeeded"
                    /\ \A i \in From(soft', j) : status'[i] # "active" /\ i \notin picked' /\ i # mid'
  BY DEF Ready
<1>1. ~stale /\ j \in Jobs /\ j \in picked /\ status[j] = "queued" /\ j \notin S
  BY DEF Waiting
<1>2. ASSUME NEW i \in From(hard', j)
      PROVE  status'[i] = "succeeded"
  <2>1. i \in Jobs /\ i \in From(hard, j)
    BY <1>1 DEF NewEdgesFrom, From
  <2>2. QED
    BY <1>1, <2>1 DEF Ready
<1>3. ASSUME NEW i \in From(soft', j)
      PROVE  status'[i] # "active" /\ i \notin picked' /\ i # mid'
  <2>1. i \in Jobs /\ i \in From(soft, j)
    BY <1>1 DEF NewEdgesFrom, From
  <2>2. ~Busy(i) /\ i \notin picked
    BY <1>1, <2>1 DEF Ready, Busy
  <2>3. ~Busy(i)'
    BY <2>1, <2>2
  <2>4. QED
    BY <2>2, <2>3 DEF Busy
<1>4. QED
  BY <1>2, <1>3

\* No edge is new in an unchanged graph.
LEMMA SameEdges == ASSUME UNCHANGED graph PROVE NewEdgesFrom({})
  BY DEF graph, NewEdgesFrom

\* An insertion gives edges to the sources of the new ones only.
LEMMA InsertFrom ==
  ASSUME NEW D, NEW newHard, NEW newSoft, NEW S, Insert(D, newHard, newSoft),
         \A j, i \in Jobs : <<j, i>> \in newHard \cup newSoft => j \in S
  PROVE  NewEdgesFrom(S)
  BY DEF Insert, NewEdgesFrom

\* Nor does a rewire, whose new jobs may get gates of their own.
LEMMA RewireFrom ==
  ASSUME NEW S, NEW old, NEW R, NEW H, NEW G, Rewire(S, old, R, H, R \X G)
  PROVE  NewEdgesFrom(S \cup R)
<1> DEFINE new == {x \in Rewirable(S, R) \X R : x[2] \in Accepted(x[1], R)}
           newHard == {x \in new : x[1] \in H} \cup (R \X G)
           newSoft == {x \in new : x[1] \notin H}
           D == Rewirable(S, R) \X {old}
           T == S \cup R
<1>1. Insert(D, newHard, newSoft)
  BY DEF Rewire
<1>2. \A j, i \in Jobs : <<j, i>> \in newHard \cup newSoft => j \in T
  BY DEF Rewirable
<1> HIDE DEF newHard, newSoft, D, T
<1>3. NewEdgesFrom(T)
  BY <1>1, <1>2, InsertFrom
<1>4. QED
  BY <1>3 DEF T

\* The same for a rewire without gates.
LEMMA RewireFromNone ==
  ASSUME NEW S, NEW old, NEW R, NEW H, Rewire(S, old, R, H, {})
  PROVE  NewEdgesFrom(S)
<1> DEFINE new == {x \in Rewirable(S, R) \X R : x[2] \in Accepted(x[1], R)}
           newHard == {x \in new : x[1] \in H} \cup {}
           newSoft == {x \in new : x[1] \notin H}
           D == Rewirable(S, R) \X {old}
<1>1. Insert(D, newHard, newSoft)
  BY DEF Rewire
<1>2. \A j, i \in Jobs : <<j, i>> \in newHard \cup newSoft => j \in S
  BY DEF Rewirable
<1> HIDE DEF newHard, newSoft, D
<1>3. QED
  BY <1>1, <1>2, InsertFrom

\* A step that opens no gate: the open ones keep their failed originals.
LEMMA GatesKept ==
  ASSUME GInv, GateHasJob, MidIsHandled',
         \A g \in Jobs : gate'[g] = gate[g] /\ (gate[g] # "none" => orig'[g] = orig[g]),
         \A g \in Jobs : status'[g] = "absent" => status[g] = "absent",
         \A g \in Jobs : Live(g)' => Live(g),
         \A g \in Jobs : Live(g)' =>
           \/ status'[orig[g]] = "failed"
           \/ mid' = orig[g] /\ status'[orig[g]] = "active" /\ gate[orig[g]] = "none"
              /\ orig[g] \in Jobs
  PROVE  GInv'
<1>1. FreshIsPlain'
  BY DEF GInv, FreshIsPlain
<1>2. \A g \in Jobs : Live(g)' => Live(g) /\ orig'[g] = orig[g]
  BY DEF Live
<1>3. GateOfFailed'
  BY <1>2 DEF GateOfFailed
<1>4. OneGateEach'
  BY <1>2 DEF GInv, OneGateEach
<1>5. OrigIsTask'
  BY DEF GInv, OrigIsTask, GateHasJob
<1>6. QED
  BY <1>1, <1>3, <1>4, <1>5 DEF GInv

\* A step that opens gate g for job j, which has none.
LEMMA GateOpened ==
  ASSUME GInv, GateHasJob, MidIsHandled', RestOK, NEW g \in Jobs, NEW j \in Jobs, NEW kind,
         NewGate(g, j, kind), status[g] = "absent", status'[g] = "queued", gate[j] = "none", g # j,
         \A i \in Jobs : status'[i] = "absent" => status[i] = "absent" /\ i # g,
         \A i \in Jobs : i # g /\ Live(i)' => Live(i) /\ orig[i] # j
                                              /\ status'[orig[i]] = "failed",
         \/ status'[j] = "failed"
         \/ mid' = j /\ status'[j] = "active"
  PROVE  GInv'
<1>1. /\ orig'[g] = j /\ gate'[g] = kind
      /\ \A i \in Jobs : i # g => orig'[i] = orig[i] /\ gate'[i] = gate[i]
  BY DEF NewGate, RestOK
<1>2. FreshIsPlain'
  BY <1>1 DEF GInv, FreshIsPlain
<1>3. GateOfFailed'
  BY <1>1 DEF GateOfFailed
<1>4. OneGateEach'
  BY <1>1 DEF GInv, OneGateEach
<1>5. OrigIsTask'
  BY <1>1 DEF GInv, OrigIsTask, GateHasJob, Exists
<1>6. QED
  BY <1>2, <1>3, <1>4, <1>5 DEF GInv

\* A step of one handler that opens no gate and does not stop half-way.
LEMMA QuietStep ==
  ASSUME LInv, NEW S, NewEdgesFrom(S), picked' = picked, mid' = mid, stale' = stale,
         \A g \in Jobs : gate'[g] = gate[g] /\ (gate[g] # "none" => orig'[g] = orig[g]),
         \A i \in Jobs : status'[i] = "absent" => status[i] = "absent",
         \A i \in Jobs : gate[i] # "none" /\ status'[i] \in {"queued", "active"}
                           => status[i] \in {"queued", "active"},
         \A i \in Jobs : status[i] = "failed" =>
                           status'[i] = "failed" \/ \A g \in Jobs : Live(g)' => orig[g] # i,
         mid # NoJob => status'[mid] = status[mid],
         \A i \in picked : status'[i] = status[i] \/ status'[i] = "canceled",
         ~stale => \A j \in S : ~Waiting(j),
         \A i \in Jobs : status[i] = "succeeded" => status'[i] = "succeeded",
         \A i \in Jobs : status'[i] = "active" => status[i] = "active"
  PROVE  GInv' /\ PickedOnce' /\ Ready'
<1>1. RestOK /\ GateHasJob
  BY Parts DEF LInv
<1>2. GInv /\ PickedOnce /\ Ready
  BY DEF LInv
<1>3. \A g \in Jobs : Live(g)' => Live(g)
  BY DEF Live
<1>4. MidIsHandled'
  <2> SUFFICES ASSUME mid # NoJob PROVE MidIsHandled'
    BY DEF MidIsHandled
  <2>1. mid \in Jobs
    BY <1>1 DEF RestOK
  <2>2. CASE status[mid] = "active"
    BY <2>2 DEF MidIsHandled
  <2>3. CASE status[mid] # "active"
    <3>1. /\ status[mid] = "failed" /\ gate[mid] = "none"
          /\ \A g \in Jobs : Live(g) => orig[g] # mid
      BY <1>2, <2>3 DEF GInv, MidIsHandled
    <3>2. \A g \in Jobs : Live(g)' => orig'[g] # mid
      BY <1>3, <3>1 DEF Live
    <3>3. QED
      BY <2>1, <3>1, <3>2 DEF MidIsHandled
  <2>4. QED
    BY <2>2, <2>3
<1>5. ASSUME NEW g \in Jobs, Live(g)'
      PROVE  \/ status'[orig[g]] = "failed"
             \/ mid' = orig[g] /\ status'[orig[g]] = "active" /\ gate[orig[g]] = "none"
                /\ orig[g] \in Jobs
  <2>1. Live(g) /\ orig[g] \in Jobs
    BY <1>1, <1>3, <1>5 DEF Live, GateHasJob
  <2>2. CASE status[orig[g]] = "failed"
    BY <1>5, <2>1, <2>2
  <2>3. CASE mid = orig[g] /\ status[mid] = "active" /\ gate[mid] = "none"
    BY <2>1, <2>3, DependencyConstants
  <2>4. QED
    BY <1>2, <2>1, <2>2, <2>3 DEF GInv, GateOfFailed
<1>6. GInv'
  BY <1>1, <1>2, <1>3, <1>4, <1>5, GatesKept
<1>7. PickedOnce'
  BY <1>2 DEF PickedOnce
<1>8. Ready'
  <2>1. \A j \in picked' : status'[j] = "queued" => status[j] = "queued"
    OBVIOUS
  <2>2. \A i \in Jobs : Busy(i)' => Busy(i) \/ i \in picked
    BY DEF Busy
  <2>3. picked \subseteq Jobs /\ picked' \subseteq picked
    BY <1>1 DEF RestOK
  <2>4. QED
    BY <1>2, <2>1, <2>2, <2>3, ReadyKept
<1>9. QED
  BY <1>6, <1>7, <1>8

\* Between the statuses of a job found runnable and those of the jobs that the
\* handlers change, there is no overlap.
LEMMA PickedApart ==
  ASSUME LInv, NEW i \in picked
  PROVE  i \in Jobs /\ status[i] \notin {"active", "failed", "absent", "succeeded"}
  BY Parts DEF LInv, PickedOnce, RestOK

\* Who waits for a busy job, or is new, is not waiting to be leased.
LEMMA NobodyWaiting ==
  ASSUME LInv, NEW d \in Jobs, Busy(d), NEW R \in SUBSET Fresh
  PROVE  ~stale => \A j \in Dependents(d) \cup R : ~Waiting(j)
<1> SUFFICES ASSUME ~stale, NEW j \in Dependents(d) \cup R, Waiting(j)
             PROVE  FALSE
  OBVIOUS
<1>1. CASE j \in R
  BY <1>1 DEF Waiting, Fresh, With
<1>2. CASE j \in Dependents(d)
  BY <1>2, WaitingIsFree DEF LInv, GInv, Dependents
<1>3. QED
  BY <1>1, <1>2

\* A new job is nobody's dependency, and an edit is excused by `stale`.
LEMMA CallerLeases == ASSUME LInv, Caller PROVE GInv' /\ PickedOnce' /\ Ready'
<1>1. StatusOK /\ RestOK /\ GInv /\ PickedOnce
  BY Parts DEF LInv
<1>2. ASSUME NEW j \in Jobs, createJob(j)
      PROVE  GInv' /\ PickedOnce' /\ Ready'
  <2>1. /\ status[j] = "absent" /\ status'[j] = "queued"
        /\ \A i \in Jobs : i # j => status'[i] = status[i]
        /\ UNCHANGED graph /\ picked' = picked /\ mid' = mid /\ stale' = stale
        /\ orig' = orig /\ gate' = gate
    <3>1. status[j] = "absent" /\ status' = [status EXCEPT ![j] = "queued"]
      BY <1>2 DEF createJob, Fresh, With
    <3>2. status'[j] = "queued" /\ \A i \in Jobs : i # j => status'[i] = status[i]
      BY <1>1, <3>1 DEF StatusOK
    <3>3. /\ UNCHANGED graph /\ picked' = picked /\ mid' = mid /\ stale' = stale
          /\ orig' = orig /\ gate' = gate
      BY <1>2 DEF createJob, gates, counts
    <3>4. QED
      BY <3>1, <3>2, <3>3
  <2>2. gate[j] = "none"
    BY <1>1, <2>1 DEF GInv, FreshIsPlain
  <2>3. j # mid /\ j \notin picked
    BY <1>1, <2>1, DependencyConstants DEF GInv, MidIsHandled, PickedOnce
  <2>4. NewEdgesFrom({})
    BY <2>1, SameEdges
  <2>5. picked \subseteq Jobs /\ mid \in Jobs \cup {NoJob}
    BY <1>1 DEF RestOK
  <2>6. QED
    BY <2>1, <2>2, <2>3, <2>4, <2>5, QuietStep
<1>3. ASSUME Edit
      PROVE  GInv' /\ PickedOnce' /\ Ready'
  <2>1. /\ status' = status /\ picked' = picked /\ mid' = mid
        /\ orig' = orig /\ gate' = gate /\ stale' = (picked # {})
    BY <1>3 DEF Edit, gates
  <2>2. GInv'
    BY <1>1, <2>1 DEF GInv, FreshIsPlain, MidIsHandled, GateOfFailed, OneGateEach, OrigIsTask, Live
  <2>3. PickedOnce'
    BY <1>1, <2>1 DEF PickedOnce
  <2>4. Ready'
    BY <2>1 DEF Ready
  <2>5. QED
    BY <2>2, <2>3, <2>4
<1>4. QED
  BY <1>2, <1>3 DEF Caller, addDependency, removeDependency, rewireDependencyChain

\* A scan establishes Ready, a lease takes a job nobody runnable waits for, the
\* cascade cancels queued jobs only, and a crash empties the picked jobs.
LEMMA LapLeases ==
  ASSUME HandlerCrash = FALSE, LInv, Lap \/ crash
  PROVE  GInv' /\ PickedOnce' /\ Ready'
<1>1. StatusOK /\ RestOK /\ GateHasJob /\ GInv /\ PickedOnce /\ Ready
  BY Parts DEF LInv
<1>2. CASE scan
  <2>1. /\ status' = status /\ hard' = hard /\ soft' = soft /\ mid' = mid /\ mid = NoJob
        /\ orig' = orig /\ gate' = gate /\ picked' = Runnable
    BY <1>2 DEF scan, gates, graph
  <2>2. GInv'
    BY <1>1, <2>1 DEF GInv, FreshIsPlain, MidIsHandled, GateOfFailed, OneGateEach, OrigIsTask, Live
  <2>3. PickedOnce'
    BY <2>1 DEF PickedOnce, Runnable, With
  <2>4. \A j \in Runnable :
          /\ j \in Jobs /\ status[j] = "queued"
          /\ \A i \in From(hard, j) : status[i] = "succeeded"
          /\ \A i \in From(soft, j) : status[i] \in {"succeeded", "failed", "canceled"}
    BY DEF Runnable, With
  <2>5. Ready'
    <3> SUFFICES ASSUME NEW j \in Runnable
                 PROVE  /\ \A i \in From(hard, j) : status[i] = "succeeded"
                        /\ \A i \in From(soft, j) : status[i] # "active" /\ i \notin Runnable /\ i # NoJob
      BY <2>1 DEF Ready
    <3>1. \A i \in From(soft, j) : i # NoJob
      BY DependencyConstants DEF From
    <3>2. QED
      BY <2>4, <3>1
  <2>6. QED
    BY <2>2, <2>3, <2>5
<1>3. ASSUME NEW j \in Jobs, lease(j)
      PROVE  GInv' /\ PickedOnce' /\ Ready'
  <2>1. /\ mid = NoJob /\ j \in picked /\ status[j] = "queued" /\ status'[j] = "active"
        /\ \A i \in Jobs : i # j => status'[i] = status[i]
        /\ UNCHANGED graph /\ picked' = picked \ {j} /\ mid' = mid /\ stale' = stale
        /\ orig' = orig /\ gate' = gate
    BY <1>1, <1>3 DEF lease, StatusOK, gates, counts
  <2>2. picked \subseteq Jobs
    BY <1>1 DEF RestOK
  <2>3. \A g \in Jobs : Live(g)' => Live(g)
    BY <2>1 DEF Live
  <2>4. MidIsHandled'
    BY <2>1 DEF MidIsHandled
  <2>5. \A g \in Jobs : Live(g)' => status'[orig[g]] = "failed"
    <3> SUFFICES ASSUME NEW g \in Jobs, Live(g)
                 PROVE  status'[orig[g]] = "failed"
      BY <2>3
    <3>1. orig[g] \in Jobs
      BY <1>1 DEF GateHasJob, Live
    <3>2. status[orig[g]] = "failed"
      BY <1>1, <2>1, <3>1, DependencyConstants DEF GInv, GateOfFailed
    <3>3. QED
      BY <2>1, <3>1, <3>2
  <2>6. GInv'
    BY <1>1, <2>1, <2>3, <2>4, <2>5, GatesKept
  <2>7. PickedOnce'
    BY <1>1, <2>1, <2>2 DEF PickedOnce
  <2>8. Ready'
    <3>1. \A i \in Jobs : Busy(i)' => Busy(i) \/ i \in picked
      BY <2>1 DEF Busy
    <3>2. /\ \A i \in picked' : status'[i] = "queued" => status[i] = "queued"
          /\ \A i \in Jobs : status[i] = "succeeded" => status'[i] = "succeeded"
          /\ picked' \subseteq picked
      BY <2>1, <2>2
    <3>3. NewEdgesFrom({})
      BY <2>1, SameEdges
    <3>4. QED
      BY <1>1, <2>1, <2>2, <3>1, <3>2, <3>3, ReadyKept
  <2>9. QED
    BY <2>6, <2>7, <2>8
<1>4. ASSUME NEW W \in WorkItems, cancelDeadlockedJobs(W)
      PROVE  GInv' /\ PickedOnce' /\ Ready'
  <2>1. /\ mid = NoJob /\ UNCHANGED graph /\ picked' = picked /\ mid' = mid /\ stale' = stale
        /\ orig' = orig /\ gate' = gate
        /\ \A i \in Jobs : status'[i] = status[i]
                             \/ (status[i] = "queued" /\ status'[i] = "canceled")
    BY <1>4 DEF cancelDeadlockedJobs, gates, counts
  <2>2. NewEdgesFrom({}) /\ picked \subseteq Jobs
    BY <1>1, <2>1, SameEdges DEF RestOK
  <2>3. QED
    BY <2>1, <2>2, QuietStep
<1>5. CASE crash
  <2>1. /\ mid = NoJob /\ mid' = NoJob /\ picked' = {} /\ orig' = orig /\ gate' = gate
        /\ \A i \in Jobs : status'[i] = IF status[i] = "active" THEN "queued" ELSE status[i]
    BY <1>5 DEF crash, gates
  <2>2. \A g \in Jobs : Live(g)' => Live(g)
    BY <2>1 DEF Live
  <2>3. MidIsHandled'
    BY <2>1 DEF MidIsHandled
  <2>4. \A g \in Jobs : Live(g)' => status'[orig[g]] = "failed"
    <3> SUFFICES ASSUME NEW g \in Jobs, Live(g)
                 PROVE  status'[orig[g]] = "failed"
      BY <2>2
    <3>1. orig[g] \in Jobs
      BY <1>1 DEF GateHasJob, Live
    <3>2. status[orig[g]] = "failed"
      BY <1>1, <2>1, <3>1, DependencyConstants DEF GInv, GateOfFailed
    <3>3. QED
      BY <2>1, <3>1, <3>2
  <2>5. GInv'
    BY <1>1, <2>1, <2>2, <2>3, <2>4, GatesKept
  <2>6. QED
    BY <2>1, <2>5 DEF PickedOnce, Ready
<1>6. QED
  BY <1>2, <1>3, <1>4, <1>5 DEF Lap

\* The outcomes of an active job, which nobody found runnable waits for.
LEMMA OutcomeLeases == ASSUME LInv, NEW j \in Jobs, Outcome(j) PROVE GInv' /\ PickedOnce' /\ Ready'
<1>1. StatusOK /\ RestOK /\ GateHasJob /\ GInv /\ PickedOnce /\ Ready
  BY Parts DEF LInv
<1>2. /\ mid = NoJob /\ status[j] = "active" /\ Busy(j)
      /\ j \notin picked /\ picked \subseteq Jobs
  BY <1>1 DEF Outcome, succeed, fail, blockedRelease, confirmFailure,
     restoreGateDependentsToOriginal, settleOriginal, failVerdict, spawnDeadLetterRecovery,
     parkBlockedRecoveryGate, deadLetterRetry, ActiveGate, ActiveTask, Active, Busy, PickedOnce,
     RestOK
<1>3. \A g \in Jobs : Live(g) => orig[g] \in Jobs /\ status[orig[g]] = "failed" /\ orig[g] # j
  BY <1>1, <1>2, DependencyConstants DEF GInv, GateOfFailed, GateHasJob, Live
<1>4. \A i \in picked : status[i] \notin {"active", "failed", "absent", "succeeded"}
  BY PickedApart
<1>5. ~stale => \A i \in Dependents(j) : ~Waiting(i)
  <2> DEFINE none == {}
  <2>1. none \in SUBSET Fresh
    OBVIOUS
  <2>2. QED
    BY <1>2, <2>1, NobodyWaiting
<1>6. CASE succeed(j) \/ fail(j) \/ confirmFailure(j)
  <2>1. /\ status'[j] \in {"succeeded", "failed"}
        /\ \A i \in Jobs : i # j => status'[i] = status[i]
    BY <1>1, <1>6 DEF succeed, fail, confirmFailure, StatusOK
  <2>2. /\ UNCHANGED graph /\ picked' = picked /\ mid' = mid /\ stale' = stale
        /\ orig' = orig /\ gate' = gate
    BY <1>6 DEF succeed, fail, confirmFailure, gates, counts
  <2>3. NewEdgesFrom({})
    BY <2>2, SameEdges
  <2>4. QED
    BY <1>2, <2>1, <2>2, <2>3, QuietStep
<1>7. ASSUME NEW s \in {"canceled", "succeeded"}, settleOriginal(j, s)
      PROVE  GInv' /\ PickedOnce' /\ Ready'
  <2> DEFINE o == orig[j]
  <2>1. /\ Live(j) /\ status' = [status EXCEPT ![j] = "succeeded", ![o] = s]
        /\ UNCHANGED graph /\ picked' = picked /\ mid' = mid /\ stale' = stale
        /\ orig' = orig /\ gate' = gate
    BY <1>2, <1>7 DEF settleOriginal, ActiveGate, Live, gates, counts
  <2>2. o \in Jobs /\ status[o] = "failed" /\ o # j /\ o \notin picked
    BY <1>3, <1>4, <2>1
  <2>3. /\ status'[j] = "succeeded" /\ status'[o] = s
        /\ \A i \in Jobs : i # j /\ i # o => status'[i] = status[i]
    BY <1>1, <2>1, <2>2 DEF StatusOK
  <2>4. \A g \in Jobs : Live(g)' => orig[g] # o
    <3> SUFFICES ASSUME NEW g \in Jobs, Live(g)', orig[g] = o
                 PROVE  FALSE
      OBVIOUS
    <3>1. g # j
      BY <2>3 DEF Live
    <3>2. g # o
      BY <1>3, <2>1, <2>2, <2>3 DEF Live
    <3>3. Live(g)
      BY <2>1, <2>3, <3>1, <3>2 DEF Live
    <3>4. QED
      BY <1>1, <2>1, <3>1, <3>3 DEF GInv, OneGateEach
  <2>5. NewEdgesFrom({})
    BY <2>1, SameEdges
  <2> HIDE DEF o
  <2>6. QED
    BY <1>2, <2>1, <2>2, <2>3, <2>4, <2>5, QuietStep
<1>8. ASSUME NEW R \in SUBSET Fresh, NEW G \in SUBSET (Fresh \ R), failVerdict(j, R, G)
      PROVE  GInv' /\ PickedOnce' /\ Ready'
  <2>1. /\ status' = [i \in Jobs |-> IF i = j THEN "failed"
                                     ELSE IF i \in R \cup G THEN "queued" ELSE status[i]]
        /\ Rewire(Dependents(j), j, R, HardDependents(j), R \X G)
        /\ picked' = picked /\ mid' = mid /\ stale' = stale
        /\ orig' = orig /\ gate' = gate
    BY <1>8 DEF failVerdict, gates, counts
  <2>2. \A i \in R \cup G : i \in Jobs /\ status[i] = "absent" /\ gate[i] = "none" /\ i \notin picked
    BY <1>1, <1>4 DEF GInv, FreshIsPlain, Fresh, With
  <2>3. /\ status'[j] = "failed"
        /\ \A i \in R \cup G : status'[i] = "queued"
        /\ \A i \in Jobs : i # j /\ i \notin R \cup G => status'[i] = status[i]
    BY <1>2, <2>1, <2>2
  <2>4. NewEdgesFrom(Dependents(j) \cup R)
    BY <2>1, RewireFrom
  <2>5. ~stale => \A i \in Dependents(j) \cup R : ~Waiting(i)
    BY <1>2, NobodyWaiting
  <2>6. QED
    BY <1>2, <2>1, <2>2, <2>3, <2>4, <2>5, QuietStep
<1>9. ASSUME NEW n \in Fresh, deadLetterRetry(j, n)
      PROVE  GInv' /\ PickedOnce' /\ Ready'
  <2> DEFINE o == orig[j]
             needs(E) == {d \in Jobs : \E a \in Lineage(o) : <<a, d>> \in E}
             M == {i \in Dependents(j) : \A d \in needs(Graph) : ~Cycle(Graph, i, d)}
             MH == M \cap HardDependents(j)
             newHard == (MH \X {n}) \cup ({n} \X needs(hard))
             newSoft == ((M \ MH) \X {n}) \cup ({n} \X needs(soft))
             D == M \X {j}
             S == Dependents(j) \cup {n}
  <2>1. /\ Live(j) /\ n \in Jobs /\ status[n] = "absent"
        /\ status' = [status EXCEPT ![n] = "queued", ![j] = "succeeded",
                                    ![o] = IF @ = "failed" THEN "canceled" ELSE @]
        /\ Insert(D, newHard, newSoft)
        /\ orig' = [orig EXCEPT ![n] = o]
        /\ picked' = picked /\ mid' = mid /\ stale' = stale /\ gate' = gate
    BY <1>2, <1>9 DEF deadLetterRetry, ActiveGate, Active, Live, Fresh, With, counts
  <2>2. o \in Jobs /\ status[o] = "failed" /\ o # j /\ o \notin picked /\ n # o /\ n # j
    BY <1>2, <1>3, <1>4, <2>1
  <2>3. /\ status'[j] = "succeeded" /\ status'[o] = "canceled" /\ status'[n] = "queued"
        /\ \A i \in Jobs : i # j /\ i # o /\ i # n => status'[i] = status[i]
    BY <1>1, <2>1, <2>2 DEF StatusOK
  <2>4. gate[n] = "none" /\ n \notin picked
    BY <1>1, <1>4, <2>1 DEF GInv, FreshIsPlain
  <2>5. \A g \in Jobs : gate'[g] = gate[g] /\ (gate[g] # "none" => orig'[g] = orig[g])
    BY <1>1, <2>1, <2>4 DEF RestOK
  <2>6. \A g \in Jobs : Live(g)' => orig[g] # o
    <3> SUFFICES ASSUME NEW g \in Jobs, Live(g)', orig[g] = o
                 PROVE  FALSE
      OBVIOUS
    <3>1. g # j /\ g # o /\ g # n
      BY <2>1, <2>3, <2>4 DEF Live
    <3>2. Live(g)
      BY <2>1, <2>3, <3>1 DEF Live
    <3>3. QED
      BY <1>1, <2>1, <3>1, <3>2 DEF GInv, OneGateEach
  <2>7. \A i, d \in Jobs : <<i, d>> \in newHard \cup newSoft => i \in S
    OBVIOUS
  <2>8. NewEdgesFrom(S)
    <3> HIDE DEF newHard, newSoft, D, S
    <3>1. QED
      BY <2>1, <2>7, InsertFrom
  <2>9. ~stale => \A i \in S : ~Waiting(i)
    BY <1>5, <2>1 DEF Waiting
  <2> HIDE DEF o, S, D, newHard, newSoft
  <2>10. QED
    BY <1>2, <2>1, <2>2, <2>3, <2>4, <2>5, <2>6, <2>8, <2>9, QuietStep
<1>10. CASE blockedRelease(j)
  <2>1. /\ gate[j] = "none" /\ status'[j] = "failed" /\ mid' = j
        /\ \A i \in Jobs : i # j => status'[i] = status[i]
    BY <1>1, <1>10 DEF blockedRelease, ActiveTask, StatusOK
  <2>2. /\ UNCHANGED graph /\ picked' = picked /\ stale' = stale
        /\ orig' = orig /\ gate' = gate
    BY <1>10 DEF blockedRelease, gates, counts
  <2>3. \A g \in Jobs : Live(g)' => Live(g)
    BY <2>1, <2>2 DEF Live
  <2>4. MidIsHandled'
    BY <1>3, <2>1, <2>2, <2>3 DEF MidIsHandled
  <2>5. \A g \in Jobs : Live(g)' => status'[orig[g]] = "failed"
    BY <1>3, <2>1, <2>3
  <2>6. GInv'
    BY <1>1, <1>2, <2>1, <2>2, <2>3, <2>4, <2>5, GatesKept
  <2>7. PickedOnce'
    BY <1>1, <1>2, <2>1, <2>2 DEF PickedOnce
  <2>8. Ready'
    <3>1. \A i \in Jobs : Busy(i)' => Busy(i) \/ i \in picked
      BY <1>2, <2>1 DEF Busy
    <3>2. NewEdgesFrom({})
      BY <2>2, SameEdges
    <3>3. QED
      BY <1>1, <1>2, <2>1, <2>2, <3>1, <3>2, ReadyKept
  <2>9. QED
    BY <2>6, <2>7, <2>8
<1>11. CASE restoreGateDependentsToOriginal(j)
  <2>1. /\ mid' = j /\ status' = status /\ picked' = picked /\ stale' = stale
        /\ orig' = orig /\ gate' = gate
        /\ Rewire(Dependents(j), j, {orig[j]}, HardDependents(j), {})
    BY <1>11 DEF restoreGateDependentsToOriginal, gates, counts
  <2>2. \A g \in Jobs : Live(g)' => Live(g)
    BY <2>1 DEF Live
  <2>3. MidIsHandled'
    BY <1>2, <2>1 DEF MidIsHandled
  <2>4. GInv'
    BY <1>1, <1>3, <2>1, <2>2, <2>3, GatesKept
  <2>5. PickedOnce'
    BY <1>1, <2>1 DEF PickedOnce
  <2>6. Ready'
    <3>1. \A i \in Jobs : Busy(i)' => Busy(i) \/ i \in picked
      BY <1>2, <2>1 DEF Busy
    <3>2. NewEdgesFrom(Dependents(j))
      BY <2>1, RewireFromNone
    <3>3. QED
      BY <1>1, <1>2, <1>5, <2>1, <3>1, <3>2, ReadyKept
  <2>7. QED
    BY <2>4, <2>5, <2>6
<1>12. ASSUME NEW g \in Fresh, spawnDeadLetterRecovery(j, g) \/ parkBlockedRecoveryGate(j, g)
       PROVE  GInv' /\ PickedOnce' /\ Ready'
  <2>1. PICK kind, H : /\ NewGate(g, j, kind)
                       /\ Rewire(Dependents(j), j, {g}, H, {})
                       /\ picked' = picked /\ stale' = stale /\ gate[j] = "none"
    BY <1>12 DEF spawnDeadLetterRecovery, parkBlockedRecoveryGate, ActiveTask, counts
  <2>2. g \in Jobs /\ status[g] = "absent" /\ g # j /\ g \notin picked
    BY <1>2, <1>4 DEF Fresh, With
  <2>3. /\ status'[g] = "queued"
        /\ \A i \in Jobs : i # g /\ i # j => status'[i] = status[i]
        /\ \/ status'[j] = "active" /\ mid' = j
           \/ status'[j] = "failed" /\ mid' = NoJob
    BY <1>1, <1>2, <1>12, <2>2 DEF spawnDeadLetterRecovery, parkBlockedRecoveryGate, StatusOK
  <2>4. \A i \in Jobs : i # g => gate'[i] = gate[i] /\ orig'[i] = orig[i]
    BY <1>1, <2>1 DEF NewGate, RestOK
  <2>5. MidIsHandled'
    BY <2>3, DependencyConstants DEF MidIsHandled
  <2>6. \A i \in Jobs : i # g /\ Live(i)' => Live(i) /\ orig[i] # j /\ status'[orig[i]] = "failed"
    <3> SUFFICES ASSUME NEW i \in Jobs, i # g, Live(i)'
                 PROVE  Live(i) /\ orig[i] # j /\ status'[orig[i]] = "failed"
      OBVIOUS
    <3>1. Live(i)
      BY <1>2, <2>1, <2>3, <2>4 DEF Live
    <3>2. orig[i] \in Jobs /\ status[orig[i]] = "failed" /\ orig[i] # j /\ orig[i] # g
      BY <1>3, <2>2, <3>1
    <3>3. QED
      BY <2>3, <3>1, <3>2
  <2>7. GInv'
    <3>1. \A i \in Jobs : status'[i] = "absent" => status[i] = "absent" /\ i # g
      BY <1>2, <2>3
    <3>2. QED
      BY <1>1, <2>1, <2>2, <2>3, <2>5, <2>6, <3>1, GateOpened
  <2>8. PickedOnce'
    BY <1>1, <1>2, <2>1, <2>2, <2>3 DEF PickedOnce
  <2>9. Ready'
    <3>1. \A i \in Jobs : Busy(i)' => Busy(i) \/ i \in picked
      BY <1>2, <2>2, <2>3, DependencyConstants DEF Busy
    <3>2. NewEdgesFrom(Dependents(j))
      BY <2>1, RewireFromNone
    <3>3. /\ \A i \in picked' : status'[i] = "queued" => status[i] = "queued"
          /\ \A i \in Jobs : status[i] = "succeeded" => status'[i] = "succeeded"
      BY <1>2, <2>1, <2>2, <2>3
    <3>4. QED
      BY <1>1, <1>2, <1>5, <2>1, <3>1, <3>2, <3>3, ReadyKept
  <2>10. QED
    BY <2>7, <2>8, <2>9
<1>13. QED
  BY <1>6, <1>7, <1>8, <1>9, <1>10, <1>11, <1>12 DEF Outcome

\* The second steps: nobody found runnable waits for the job being handled.
LEMMA ContinueLeases == ASSUME LInv, NEW j \in Jobs, Continue(j) PROVE GInv' /\ PickedOnce' /\ Ready'
<1>1. StatusOK /\ RestOK /\ GateHasJob /\ GInv /\ PickedOnce /\ Ready
  BY Parts DEF LInv
<1>2. mid = j /\ mid # NoJob /\ Busy(j) /\ picked \subseteq Jobs
  BY <1>1, DependencyConstants DEF Continue, releaseDeadLetter, setOriginal, blockedRewire, Busy,
     RestOK
<1>3. \A g \in Jobs : Live(g) => orig[g] \in Jobs
  BY <1>1 DEF GateHasJob, Live
<1>4. \A i \in picked : status[i] \notin {"active", "failed", "absent", "succeeded"}
  BY PickedApart
<1>5. CASE releaseDeadLetter(j)
  <2>1. /\ status[j] = "active" /\ gate[j] = "none" /\ status'[j] = "failed" /\ mid' = NoJob
        /\ \A i \in Jobs : i # j => status'[i] = status[i]
    BY <1>1, <1>5 DEF releaseDeadLetter, StatusOK
  <2>2. /\ UNCHANGED graph /\ picked' = picked /\ stale' = stale
        /\ orig' = orig /\ gate' = gate
    BY <1>5 DEF releaseDeadLetter, gates, counts
  <2>3. \A g \in Jobs : Live(g)' => Live(g)
    BY <2>1, <2>2 DEF Live
  <2>4. MidIsHandled'
    BY <2>1 DEF MidIsHandled
  <2>5. \A g \in Jobs : Live(g)' => status'[orig[g]] = "failed"
    BY <1>1, <1>2, <1>3, <2>1, <2>3 DEF GInv, GateOfFailed
  <2>6. GInv'
    BY <1>1, <2>1, <2>2, <2>3, <2>4, <2>5, GatesKept
  <2>7. PickedOnce'
    BY <1>1, <1>2, <1>4, <2>1, <2>2 DEF PickedOnce
  <2>8. Ready'
    <3>1. \A i \in Jobs : Busy(i)' => Busy(i) \/ i \in picked
      BY <1>2, <2>1, DependencyConstants DEF Busy
    <3>2. NewEdgesFrom({})
      BY <2>2, SameEdges
    <3>3. QED
      BY <1>1, <1>2, <2>1, <2>2, <3>1, <3>2, ReadyKept
  <2>9. QED
    BY <2>6, <2>7, <2>8
<1>6. ASSUME NEW s \in {"queued", "failed"}, setOriginal(j, s)
      PROVE  GInv' /\ PickedOnce' /\ Ready'
  <2> DEFINE o == orig[j]
  <2>1. /\ gate[j] = "blocked" /\ mid' = NoJob
        /\ status' = [status EXCEPT ![o] = s, ![j] = "succeeded"]
        /\ UNCHANGED graph /\ picked' = picked /\ stale' = stale
        /\ orig' = orig /\ gate' = gate
    BY <1>6 DEF setOriginal, gates, counts
  <2>2. status[j] = "active" /\ Live(j)
    BY <1>1, <1>2, <2>1 DEF GInv, MidIsHandled, Live
  <2>3. \A g \in Jobs : Live(g) => status[orig[g]] = "failed"
    BY <1>1, <1>2, <2>1 DEF GInv, GateOfFailed
  <2>4. o \in Jobs /\ status[o] = "failed" /\ o # j /\ o \notin picked /\ j \notin picked
    BY <1>3, <1>4, <2>2, <2>3
  <2>5. /\ status'[j] = "succeeded" /\ status'[o] = s
        /\ \A i \in Jobs : i # j /\ i # o => status'[i] = status[i]
    BY <1>1, <2>1, <2>4 DEF StatusOK
  <2>6. gate[o] = "none"
    BY <1>1, <2>1 DEF GInv, OrigIsTask
  <2>7. \A g \in Jobs : Live(g)' => Live(g) /\ g # j
    BY <2>1, <2>5, <2>6 DEF Live
  <2>8. MidIsHandled'
    BY <2>1 DEF MidIsHandled
  <2>9. \A g \in Jobs : Live(g)' => status'[orig[g]] = "failed"
    <3> SUFFICES ASSUME NEW g \in Jobs, Live(g), g # j
                 PROVE  status'[orig[g]] = "failed"
      BY <2>7
    <3>1. orig[g] # o
      BY <1>1, <2>2 DEF GInv, OneGateEach
    <3>2. orig[g] \in Jobs /\ status[orig[g]] = "failed" /\ orig[g] # j
      BY <1>3, <2>2, <2>3
    <3>3. QED
      BY <2>5, <3>1, <3>2
  <2>10. GInv'
    BY <1>1, <2>1, <2>5, <2>7, <2>8, <2>9, GatesKept
  <2>11. PickedOnce'
    BY <1>1, <1>2, <2>1, <2>4, <2>5 DEF PickedOnce
  <2>12. Ready'
    <3>1. \A i \in Jobs : Busy(i)' => Busy(i) \/ i \in picked
      BY <1>2, <2>1, <2>5, DependencyConstants DEF Busy
    <3>2. NewEdgesFrom({})
      BY <2>1, SameEdges
    <3>3. /\ \A i \in picked' : status'[i] = "queued" => status[i] = "queued"
          /\ \A i \in Jobs : status[i] = "succeeded" => status'[i] = "succeeded"
          /\ picked' \subseteq picked
      BY <1>2, <2>1, <2>4, <2>5
    <3>4. QED
      BY <1>1, <1>2, <2>1, <3>1, <3>2, <3>3, ReadyKept
  <2>13. QED
    BY <2>10, <2>11, <2>12
<1>7. ASSUME NEW g \in Fresh, blockedRewire(j, g)
      PROVE  GInv' /\ PickedOnce' /\ Ready'
  <2>1. PICK kind, H : /\ NewGate(g, j, kind)
                       /\ Rewire(Dependents(j), j, {g}, H, {})
                       /\ picked' = picked /\ stale' = stale /\ status[j] = "failed"
                       /\ mid' = NoJob /\ gate[j] = "none"
    BY <1>1, <1>2, <1>7 DEF blockedRewire, counts, GInv, MidIsHandled
  <2>2. g \in Jobs /\ status[g] = "absent" /\ g # j /\ g \notin picked
    BY <1>4, <2>1 DEF Fresh, With
  <2>3. /\ status'[g] = "queued"
        /\ \A i \in Jobs : i # g => status'[i] = status[i]
    BY <1>1, <1>7, <2>2 DEF blockedRewire, StatusOK
  <2>4. \A i \in Jobs : i # g => gate'[i] = gate[i] /\ orig'[i] = orig[i]
    BY <1>1, <2>1 DEF NewGate, RestOK
  <2>5. MidIsHandled'
    BY <2>1 DEF MidIsHandled
  <2>6. \A i \in Jobs : i # g /\ Live(i)' => Live(i) /\ orig[i] # j /\ status'[orig[i]] = "failed"
    <3> SUFFICES ASSUME NEW i \in Jobs, i # g, Live(i)'
                 PROVE  Live(i) /\ orig[i] # j /\ status'[orig[i]] = "failed"
      OBVIOUS
    <3>1. Live(i)
      BY <2>3, <2>4 DEF Live
    <3>2. orig[i] # j
      BY <1>1, <1>2, <2>1, <3>1 DEF GInv, MidIsHandled
    <3>3. orig[i] \in Jobs /\ status[orig[i]] = "failed"
      BY <1>1, <1>2, <1>3, <2>1, <3>1 DEF GInv, GateOfFailed
    <3>4. QED
      BY <2>2, <2>3, <3>1, <3>2, <3>3
  <2>7. GInv'
    <3>1. \A i \in Jobs : status'[i] = "absent" => status[i] = "absent" /\ i # g
      BY <2>3
    <3>2. status'[j] = "failed"
      BY <2>1, <2>2, <2>3
    <3>3. QED
      BY <1>1, <2>1, <2>2, <2>3, <2>5, <2>6, <3>1, <3>2, GateOpened
  <2>8. PickedOnce'
    BY <1>1, <1>2, <2>1, <2>2, <2>3 DEF PickedOnce
  <2>9. Ready'
    <3>1. \A i \in Jobs : Busy(i)' => Busy(i) \/ i \in picked
      BY <1>2, <2>1, <2>2, <2>3, DependencyConstants DEF Busy
    <3>2. NewEdgesFrom(Dependents(j))
      BY <2>1, RewireFromNone
    <3>3. /\ \A i \in picked' : status'[i] = "queued" => status[i] = "queued"
          /\ \A i \in Jobs : status[i] = "succeeded" => status'[i] = "succeeded"
          /\ picked' \subseteq picked
      BY <1>2, <2>1, <2>2, <2>3
    <3>4. ~stale => \A i \in Dependents(j) : ~Waiting(i)
      <4> DEFINE none == {}
      <4>1. none \in SUBSET Fresh
        OBVIOUS
      <4>2. QED
        BY <1>2, <4>1, NobodyWaiting
    <3>5. QED
      BY <1>1, <1>2, <2>1, <3>1, <3>2, <3>3, <3>4, ReadyKept
  <2>10. QED
    BY <2>7, <2>8, <2>9
<1>8. QED
  BY <1>5, <1>6, <1>7 DEF Continue

\* The invariant of the second part is kept by every step.
LEMMA LInvStep == ASSUME HandlerCrash = FALSE, LInv, [Next]_vars PROVE LInv'
<1>1. IInv'
  BY NextKeeps DEF LInv
<1>2. CASE Next
  <2>1. GInv' /\ PickedOnce' /\ Ready'
    BY <1>2, CallerLeases, LapLeases, OutcomeLeases, ContinueLeases DEF Next
  <2>2. QED
    BY <1>1, <2>1 DEF LInv
<1>3. CASE UNCHANGED vars
  <2>1. /\ status' = status /\ hard' = hard /\ soft' = soft /\ picked' = picked
        /\ orig' = orig /\ gate' = gate /\ mid' = mid /\ stale' = stale
    BY <1>3 DEF vars, graph, gates, counts
  <2>2. GInv'
    BY <2>1 DEF LInv, GInv, FreshIsPlain, MidIsHandled, GateOfFailed, OneGateEach, OrigIsTask, Live
  <2>3. PickedOnce' /\ Ready'
    BY <2>1 DEF LInv, PickedOnce, Ready
  <2>4. QED
    BY <1>1, <2>2, <2>3 DEF LInv
<1>4. QED
  BY <1>2, <1>3

\* A job is leased only when all its hard dependencies have succeeded, unless a
\* caller edited the graph after the scan: for any number of jobs, gates, retries
\* and rewires, although acquireLease looks at no dependency.  It takes that the
\* process does not die between two steps of a handler.
THEOREM LeasesAfterDependencies == HandlerCrash = FALSE => (Spec => LeasedWhenReady)
<1> SUFFICES ASSUME HandlerCrash = FALSE PROVE Spec => LeasedWhenReady
  OBVIOUS
<1>1. Init => LInv
  BY InitIInv DEF Init, LInv, GInv, FreshIsPlain, MidIsHandled, GateOfFailed, OneGateEach,
     OrigIsTask, Live, PickedOnce, Ready
<1>2. LInv /\ [Next]_vars => LInv'
  BY LInvStep
<1>3. LInv /\ [Next]_vars =>
        [\A j \in Jobs : lease(j) /\ ~stale => \A i \in From(hard, j) : status[i] = "succeeded"]_vars
  BY DEF LInv, Ready, lease
<1>4. QED
  BY <1>1, <1>2, <1>3, PTL DEF Spec, LeasedWhenReady

-----------------------------------------------------------------------------
(* The cascade.  cancelDeadlockedJobsAtomic repeats its pass, the model as   *)
(* often as there are jobs.  Induction over the passes is by least           *)
(* counterexample.                                                           *)

\* Every non-empty set of natural numbers has a least member.
LEMMA LeastNatural ==
  ASSUME NEW T \in SUBSET Nat, T # {}
  PROVE  \E n \in T : \A m \in T : ~(m < n)
<1>. DEFINE R == OpToRel(<, Nat)
<1>1. IsWellFoundedOn(R, Nat)
  BY NatLessThanWellFounded
<1>2. \A m, n \in Nat : m < n => <<m, n>> \in R
  BY DEF OpToRel
<1>. HIDE DEF R
<1>3. PICK n \in T : \A m \in T : ~(<<m, n>> \in R)
  BY <1>1, WFMin
<1>4. ASSUME NEW m \in T PROVE ~(m < n)
  <2>1. m \in Nat /\ n \in Nat /\ ~(<<m, n>> \in R)
    BY <1>3
  <2>. QED
    BY <2>1, <1>2
<1>. QED
  BY <1>4

\* p lists the first n values of F iterated from the empty set.
Iterates(F, p, n) == p[0] = {} /\ \A k \in 1..n : p[k] = F[p[k - 1]]

\* A function on sets can be iterated any number of times.
LEMMA IterationExists ==
  ASSUME NEW X, NEW F \in [SUBSET X -> SUBSET X], NEW N \in Nat
  PROVE  \E p \in [0..N -> SUBSET X] : Iterates(F, p, N)
<1>. DEFINE Good(n) == \E p \in [0..n -> SUBSET X] : Iterates(F, p, n)
            T == {n \in Nat : ~Good(n)}
<1>1. Good(0)
  <2>. DEFINE p == [k \in 0..0 |-> {}]
  <2>1. p \in [0..0 -> SUBSET X] /\ Iterates(F, p, 0)
    BY DEF Iterates
  <2>. QED
    BY <2>1
<1>2. ASSUME NEW n \in Nat, Good(n) PROVE Good(n + 1)
  <2>1. PICK p \in [0..n -> SUBSET X] : Iterates(F, p, n)
    BY <1>2
  <2>. DEFINE q == [k \in 0..(n + 1) |-> IF k = n + 1 THEN F[p[n]] ELSE p[k]]
  <2>2. q \in [0..(n + 1) -> SUBSET X]
    <3>1. F[p[n]] \in SUBSET X
      OBVIOUS
    <3>2. \A k \in 0..(n + 1) : k # n + 1 => k \in 0..n
      OBVIOUS
    <3>. QED
      BY <3>1, <3>2
  <2>3. q[0] = {}
    BY <2>1 DEF Iterates
  <2>4. ASSUME NEW k \in 1..(n + 1) PROVE q[k] = F[q[k - 1]]
    <3>1. k - 1 \in 0..n /\ k \in 0..(n + 1) /\ k - 1 \in 0..(n + 1) /\ k - 1 # n + 1
      BY <2>4
    <3>2. q[k - 1] = p[k - 1]
      BY <3>1
    <3>3. CASE k = n + 1
      BY <3>1, <3>2, <3>3
    <3>4. CASE k # n + 1
      <4>1. k \in 1..n
        BY <3>4
      <4>. QED
        BY <3>1, <3>2, <3>4, <4>1, <2>1 DEF Iterates
    <3>. QED
      BY <3>3, <3>4
  <2>5. Iterates(F, q, n + 1)
    BY <2>3, <2>4 DEF Iterates
  <2>. QED
    BY <2>2, <2>5
<1>. HIDE DEF Good
<1>3. ASSUME T # {} PROVE FALSE
  <2>1. PICK n \in T : \A m \in T : ~(m < n)
    BY <1>3, LeastNatural
  <2>2. n # 0
    BY <1>1, <2>1
  <2>3. n - 1 \in Nat /\ (n - 1) + 1 = n /\ n - 1 < n
    BY <2>1, <2>2
  <2>4. n - 1 \notin T
    BY <2>1, <2>3
  <2>5. Good(n - 1)
    BY <2>3, <2>4
  <2>6. Good((n - 1) + 1)
    BY <2>3, <2>5, <1>2
  <2>. QED
    BY <2>1, <2>3, <2>6
<1>4. Good(N)
  BY <1>3
<1>. QED
  BY <1>4 DEF Good

\* F does not lead out of S.
Within(F, X, S) == \A C \in SUBSET X : C \subseteq S => F[C] \subseteq S

\* The iterates stay within a set that F does not lead out of.
LEMMA IterationWithin ==
  ASSUME NEW X, NEW F \in [SUBSET X -> SUBSET X], NEW N \in Nat,
         NEW p \in [0..N -> SUBSET X], Iterates(F, p, N),
         NEW S, Within(F, X, S)
  PROVE  \A n \in 0..N : p[n] \subseteq S
<1>. DEFINE T == {n \in 0..N : ~(p[n] \subseteq S)}
<1>1. ASSUME T # {} PROVE FALSE
  <2>0. T \in SUBSET Nat
    OBVIOUS
  <2>1. PICK n \in T : \A m \in T : ~(m < n)
    BY <1>1, <2>0, LeastNatural
  <2>2. n # 0
    BY <2>1 DEF Iterates
  <2>3. n \in 1..N /\ n - 1 \in 0..N /\ n - 1 < n
    BY <2>1, <2>2
  <2>4. p[n - 1] \subseteq S
    BY <2>1, <2>3
  <2>5. p[n] = F[p[n - 1]] /\ p[n - 1] \in SUBSET X
    BY <2>3 DEF Iterates
  <2>. QED
    BY <2>1, <2>4, <2>5 DEF Within
<1>. QED
  BY <1>1

\* A growing F has come to rest after as many iterations as there are elements:
\* each one until then adds an element.
LEMMA IterationRests ==
  ASSUME NEW X, IsFiniteSet(X), NEW F \in [SUBSET X -> SUBSET X],
         \A C \in SUBSET X : C \subseteq F[C],
         NEW p \in [0..Cardinality(X) -> SUBSET X], Iterates(F, p, Cardinality(X))
  PROVE  F[p[Cardinality(X)]] = p[Cardinality(X)]
<1>. DEFINE N == Cardinality(X)
            Rest(n) == F[p[n]] = p[n]
            Grown(n) == IsFiniteSet(p[n]) /\ Cardinality(p[n]) >= n
            T == {n \in 0..N : ~(Rest(n) \/ Grown(n))}
<1>0. N \in Nat
  BY FS_CardinalityType
<1>1. \A n \in 0..N : p[n] \in SUBSET X /\ IsFiniteSet(p[n]) /\ Cardinality(p[n]) \in Nat
  BY FS_Subset, FS_CardinalityType
<1>2. ASSUME T # {} PROVE FALSE
  <2>0. T \in SUBSET Nat
    BY <1>0
  <2>1. PICK n \in T : \A m \in T : ~(m < n)
    BY <1>2, <2>0, LeastNatural
  <2>2. n # 0
    BY <1>0, <1>1, <2>1
  <2>3. n \in 1..N /\ n - 1 \in 0..N /\ n - 1 < n /\ n \in 0..N
    BY <1>0, <2>1, <2>2
  <2>4. Rest(n - 1) \/ Grown(n - 1)
    BY <2>1, <2>3
  <2>5. p[n] = F[p[n - 1]]
    BY <2>3 DEF Iterates
  <2>6. CASE Rest(n - 1)
    BY <2>1, <2>5, <2>6
  <2>7. CASE Grown(n - 1) /\ ~Rest(n - 1)
    <3>1. p[n - 1] \subseteq p[n] /\ p[n - 1] # p[n]
      BY <2>3, <2>5, <2>7, <1>1
    <3>2. Cardinality(p[n - 1]) <= Cardinality(p[n]) /\ Cardinality(p[n - 1]) # Cardinality(p[n])
      BY <3>1, <2>3, <1>1, FS_Subset
    <3>3. Cardinality(p[n]) >= n
      BY <3>2, <2>3, <2>7, <1>1
    <3>. QED
      BY <3>3, <2>1, <2>3, <1>1
  <2>. QED
    BY <2>4, <2>6, <2>7
<1>3. N \in 0..N /\ (Rest(N) \/ Grown(N))
  BY <1>0, <1>2
<1>4. CASE Grown(N)
  <2>1. p[N] = X
    BY <1>1, <1>3, <1>4, <1>0, FS_Subset
  <2>. QED
    BY <2>1
<1>. QED
  BY <1>3, <1>4

\* One pass over the jobs of W, the jobs C being canceled already.
Pass(W) == [C \in SUBSET Jobs |-> C \cup Deadlocked(W, C)]

\* The equation of the model's recursive function.
PassesOf(W, p) ==
  p = [n \in 0..Cardinality(Jobs) |->
         IF n = 0 THEN {} ELSE p[n - 1] \cup Deadlocked(W, p[n - 1])]

\* A pass adds jobs to jobs.
LEMMA PassType ==
  ASSUME NEW W
  PROVE  Pass(W) \in [SUBSET Jobs -> SUBSET Jobs]
BY DEF Pass, Deadlocked, With

\* The passes of the model are the iterates of one pass.
LEMMA CanceledByPasses ==
  ASSUME IsFiniteSet(Jobs), NEW W
  PROVE  \E p \in [0..Cardinality(Jobs) -> SUBSET Jobs] :
           Iterates(Pass(W), p, Cardinality(Jobs)) /\ CanceledBy(W) = p[Cardinality(Jobs)]
<1>. DEFINE N == Cardinality(Jobs)
            p == CHOOSE q : PassesOf(W, q)
<1>0. N \in Nat
  BY FS_CardinalityType
<1>1. CanceledBy(W) = p[N]
  BY DEF CanceledBy, PassesOf
<1>2. PICK q \in [0..N -> SUBSET Jobs] : Iterates(Pass(W), q, N)
  BY <1>0, PassType, IterationExists
<1>3. PassesOf(W, q)
  <2>1. ASSUME NEW n \in 0..N, n # 0
        PROVE  q[n] = q[n - 1] \cup Deadlocked(W, q[n - 1])
    <3>1. n \in 1..N /\ n - 1 \in 0..N
      BY <1>0, <2>1
    <3>2. q[n - 1] \in SUBSET Jobs /\ q[n] = Pass(W)[q[n - 1]]
      BY <3>1, <1>2 DEF Iterates
    <3>. QED
      BY <3>2 DEF Pass
  <2>2. q[0] = {}
    BY <1>2 DEF Iterates
  <2>. QED
    BY <2>1, <2>2 DEF PassesOf
<1>4. PassesOf(W, p)
  BY <1>3
<1>. HIDE DEF p
<1>5. p[0] = {} /\ \A n \in 1..N : p[n] = p[n - 1] \cup Deadlocked(W, p[n - 1])
  <2>. DEFINE Body(n) == IF n = 0 THEN {} ELSE p[n - 1] \cup Deadlocked(W, p[n - 1])
  <2>1. p = [n \in 0..N |-> Body(n)]
    BY <1>4 DEF PassesOf
  <2>. HIDE DEF Body
  <2>2. \A n \in 0..N : p[n] = Body(n)
    BY <2>1
  <2>3. 0 \in 0..N /\ \A n \in 1..N : n \in 0..N /\ n # 0
    BY <1>0
  <2>. QED
    BY <2>2, <2>3 DEF Body
<1>6. p \in [0..N -> SUBSET Jobs]
  <2>1. DOMAIN p = 0..N /\ p = [n \in 0..N |-> p[n]]
    BY <1>4 DEF PassesOf
  <2>. DEFINE T == {n \in 0..N : p[n] \notin SUBSET Jobs}
  <2>2. ASSUME T # {} PROVE FALSE
    <3>0. T \in SUBSET Nat
      BY <1>0
    <3>1. PICK n \in T : \A m \in T : ~(m < n)
      BY <2>2, <3>0, LeastNatural
    <3>2. n # 0
      BY <3>1, <1>5
    <3>3. n \in 1..N /\ n - 1 \in 0..N /\ n - 1 < n
      BY <1>0, <3>1, <3>2
    <3>4. p[n - 1] \in SUBSET Jobs
      BY <3>1, <3>3
    <3>5. Deadlocked(W, p[n - 1]) \in SUBSET Jobs
      BY DEF Deadlocked, With
    <3>. QED
      BY <3>1, <3>3, <3>4, <3>5, <1>5
  <2>. QED
    BY <2>1, <2>2
<1>7. Iterates(Pass(W), p, N)
  <2>1. ASSUME NEW n \in 1..N PROVE p[n] = Pass(W)[p[n - 1]]
    <3>1. n - 1 \in 0..N
      BY <1>0
    <3>. QED
      BY <3>1, <1>5, <1>6 DEF Pass
  <2>. QED
    BY <2>1, <1>5 DEF Iterates
<1>. QED
  BY <1>1, <1>6, <1>7

\* The cascade over W ends with the jobs that can never run: it is closed under
\* a further pass, and it is within every set that is.
LEMMA CascadeIsLeast ==
  ASSUME IsFiniteSet(Jobs), NEW W \in SUBSET Jobs
  PROVE  CanceledBy(W) = Doomed(W) /\ CanceledBy(W) \subseteq With("queued")
<1>. DEFINE N == Cardinality(Jobs)
            Final(S) == \A i \in W \cap With("queued") : From(hard, i) \cap (Dead \cup S) # {} => i \in S
<1>0. N \in Nat /\ N \in 0..N
  BY FS_CardinalityType
<1>1. PICK p \in [0..N -> SUBSET Jobs] : Iterates(Pass(W), p, N) /\ CanceledBy(W) = p[N]
  BY CanceledByPasses
<1>2. p[N] \in SUBSET Jobs
  BY <1>0
<1>3. Final(p[N])
  <2>1. \A C \in SUBSET Jobs : C \subseteq Pass(W)[C]
    BY DEF Pass
  <2>2. Pass(W)[p[N]] = p[N]
    BY <1>1, <2>1, PassType, IterationRests
  <2>3. Deadlocked(W, p[N]) \subseteq p[N]
    BY <2>2, <1>2 DEF Pass
  <2>. QED
    BY <2>3 DEF Deadlocked
<1>4. ASSUME NEW S, Final(S) PROVE p[N] \subseteq S
  <2>1. ASSUME NEW C \in SUBSET Jobs, C \subseteq S PROVE Pass(W)[C] \subseteq S
    BY <1>4, <2>1 DEF Pass, Deadlocked
  <2>. HIDE DEF Final
  <2>2. Within(Pass(W), Jobs, S)
    BY <2>1 DEF Within
  <2>3. \A n \in 0..N : p[n] \subseteq S
    BY <1>0, <1>1, <2>2, PassType, IterationWithin
  <2>. QED
    BY <2>3, <1>0
<1>5. p[N] \subseteq With("queued")
  BY <1>4
<1>6. Doomed(W) = {j \in Jobs : \A S \in SUBSET Jobs : Final(S) => j \in S}
  BY DEF Doomed
<1>. HIDE DEF Final
<1>7. Doomed(W) = p[N]
  BY <1>2, <1>3, <1>4, <1>6
<1>. QED
  BY <1>1, <1>5, <1>7

\* cancelDeadlockedJobsAtomic cancels exactly the jobs that can never run, in any
\* graph, however long the chains and whichever work item it is limited to: no
\* job behind a dead one is left queued, and none that could still run is lost.
THEOREM CascadeCancelsTheDoomed ==
  ASSUME IsFiniteSet(Jobs)
  PROVE  Spec => CascadeExact
<1>. DEFINE Step == \A W \in WorkItems : cancelDeadlockedJobs(W) =>
       {j \in Jobs : status'[j] = "canceled" /\ status[j] # "canceled"} = Doomed(W)
<1>1. Step
  <2>. SUFFICES ASSUME NEW W \in WorkItems, cancelDeadlockedJobs(W)
       PROVE  {j \in Jobs : status'[j] = "canceled" /\ status[j] # "canceled"} = Doomed(W)
    OBVIOUS
  <2>1. W \in SUBSET Jobs
    BY DependencyConstants
  <2>2. CanceledBy(W) = Doomed(W) /\ CanceledBy(W) \subseteq With("queued")
    BY <2>1, CascadeIsLeast
  <2>3. status' = [j \in Jobs |-> IF j \in Doomed(W) /\ status[j] = "queued"
                                  THEN "canceled" ELSE status[j]]
    BY <2>2 DEF cancelDeadlockedJobs
  <2>4. \A j \in Doomed(W) : j \in Jobs /\ status[j] = "queued"
    BY <2>2 DEF With
  <2>. HIDE DEF Doomed
  <2>. QED
    BY <2>3, <2>4
<1>. QED
  BY <1>1, PTL DEF CascadeExact, Spec

=============================================================================
