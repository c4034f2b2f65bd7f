--------------------------- MODULE ProcessProofs ---------------------------
(***************************************************************************)
(* Proofs about Process: what the sub_threads lists record of children is  *)
(* right and final, for any number of pages, processes and exit codes,     *)
(* although pages are reused under the pointers that lead to the lists.    *)
(***************************************************************************)
EXTENDS Process, SequenceTheorems, TLAPS

\* Time limits of the provers.
USE SMTT(10), ZenonT(20)

ArgPc == {"register", "task_wait", "wait_check", "wait_set", "wait_block", "wait_resume"}

\* What the members of the lists are.
LEMMA EntryType ==
  ASSUME TypeOK, NEW p \in Page, NEW i \in DOMAIN subs[p]
  PROVE  /\ subs[p][i] \in sub_thread
         /\ subs[p][i].pid \in Tid \cup {ERROR}
         /\ subs[p][i].exit_code \in Value
<1>1. subs[p] \in Seq(sub_thread)
  BY Zenon DEF TypeOK
<1>2. i \in 1 .. Len(subs[p])
  BY <1>1, LenProperties
<1>3. subs[p][i] \in sub_thread
  BY <1>1, <1>2, ElementOfSeq
<1> QED BY <1>3 DEF sub_thread

\* An end has a status.
LEMMA NullNoValue == NULL \notin Value
<1>1. ERROR \in Int
  BY DEF ERROR
<1> QED BY Zenon, <1>1, ProcessAssumption DEF Value

\* The processes as the initial thread starts the first task.
LEMMA InitIInv == Init => IInv
<1> SUFFICES ASSUME Init PROVE IInv
  OBVIOUS
<1> USE ProcessAssumption
<1>1. TypeOK
  <2>1. subs \in [Page -> Seq(sub_thread)]
    BY EmptySeq DEF Init
  <2>2. tid \in [Page -> 0 .. MaxTid] /\ next_tid \in 1 .. MaxTid + 1
    BY DEF Init
  <2>3. /\ state \in [Page -> {"free", "ready", "blocked", "dying"}]
        /\ pc \in [Page -> PC]
        /\ waited \in [Page -> BOOLEAN] /\ panic \in BOOLEAN
    BY DEF Init, PC
  <2>4. /\ pt \in [Page -> Page \cup {NULL}]
        /\ arg \in [Page -> [st : Page, tid : Tid] \cup {NULL}]
        /\ parent \in [Tid -> Tid \cup {NULL}]
        /\ ended \in [Tid -> Value \cup {NULL}]
    BY Zenon DEF Init
  <2> QED BY Zenon, <2>1, <2>2, <2>3, <2>4 DEF TypeOK
<1>2. \A p \in Page : DOMAIN subs[p] = {}
  BY DEF Init
<1>3. RecordedOnce
  <2>1. \A p \in Page : Alive(p) => p = main
    BY DEF Init, Alive
  <2> QED BY <1>2, <2>1 DEF RecordedOnce
<1>4. CodeIsChilds /\ Unrecorded
  BY <1>2 DEF CodeIsChilds, Unrecorded, Init
<1>5. TidsUnique
  BY DEF Init, TidsUnique, Tid
<1>6. PcState
  BY DEF Init, PcState
<1>7. EndedGone
  BY <1>2 DEF Init, EndedGone, Tid
<1> QED BY <1>1, <1>3, <1>4, <1>5, <1>6, <1>7 DEF IInv

----------------------------------------------------------------------------
(* The steps that create, record and bury nobody. *)

\* Process a takes such a step: lists keep their members, tids their pages.
LEMMA StepKeeps ==
  ASSUME IInv, NEW a \in Page, state[a] = "ready",
         UNCHANGED <<tid, pt, next_tid, parent>>,
         \A p \in Page : /\ state'[p] = "free" <=> state[p] = "free"
                         /\ state'[p] = "dying" <=> state[p] = "dying",
         \A p \in Page : p # a => pc'[p] = pc[p] /\ arg'[p] = arg[p],
         pc'[a] \notin {"none", "register"},
         pc'[a] \in ArgPc => arg'[a] # NULL,
         \A p \in Page : /\ DOMAIN subs'[p] = DOMAIN subs[p]
                         /\ \A i \in DOMAIN subs[p] : subs'[p][i].pid = subs[p][i].pid,
         \A n \in Tid : n # tid[a] => ended'[n] = ended[n]
  PROVE  RecordedOnce' /\ TidsUnique' /\ PcState' /\ Unrecorded'
<1>0. RecordedOnce /\ TidsUnique /\ PcState /\ Unrecorded /\ TypeOK
  BY DEF IInv
<1>1. TidsUnique'
  <2>1. tid[a] < next_tid /\ tid[a] \in 0 .. MaxTid /\ next_tid \in Nat
    BY <1>0, ProcessAssumption DEF TidsUnique, TypeOK
  <2>2. \A n \in Tid : n >= next_tid => n # tid[a]
    BY <2>1, ProcessAssumption DEF Tid
  <2> QED BY <1>0, <2>2 DEF TidsUnique
<1>2. \A p \in Page : pc'[p] = "none" <=> pc[p] = "none"
  BY <1>0 DEF PcState
<1>3. PcState'
  BY <1>0, <1>2 DEF PcState, ArgPc
<1>4. Unrecorded'
  BY <1>0 DEF Unrecorded
<1>5. RecordedOnce'
  <2>1. \A p \in Page : tid'[p] \in 0 .. MaxTid
    BY <1>0 DEF TypeOK
  <2>2. \A p, q \in Page : Alive(p)' /\ Alive(q)' /\ tid'[p] = tid'[q] => p = q
    BY <1>1, ProcessAssumption DEF TidsUnique, Alive
  <2> QED BY <1>0, <2>2 DEF RecordedOnce
<1> QED BY <1>1, <1>3, <1>4, <1>5

\* What it writes is its own status, once, and then it is on its way out.
LEMMA StepEnds ==
  ASSUME IInv, NEW a \in Page, state[a] = "ready", tid' = tid,
         \A p \in Page : p # a => pc'[p] = pc[p],
         pc'[a] # "none",
         pc[a] \in {"exit_flag", "exit_die"} => pc'[a] \in {"exit_flag", "exit_die"},
         pc[a] # "fault",
         \A n \in Tid : n # tid[a] => ended'[n] = ended[n],
         \/ ended'[tid[a]] = ended[tid[a]]
         \/ ended[tid[a]] = NULL /\ pc'[a] = "exit_flag",
         \A p \in Page :
           /\ DOMAIN subs'[p] = DOMAIN subs[p]
           /\ \A i \in DOMAIN subs[p] :
                /\ subs'[p][i].pid = subs[p][i].pid
                /\ \/ subs'[p][i].exit_code = subs[p][i].exit_code
                   \/ /\ subs[p][i].pid = tid[a]
                      /\ subs'[p][i].exit_code \in {ERROR, ended'[tid[a]]}
                      /\ pc'[a] \in {"exit_flag", "fault"}
  PROVE  CodeIsChilds' /\ EndedGone'
<1>0. TypeOK /\ CodeIsChilds /\ EndedGone /\ TidsUnique
  BY DEF IInv
<1>1. /\ tid[a] \in Tid /\ tid[a] # ERROR
      /\ \A p \in Page : tid[p] \in 0 .. MaxTid
  BY <1>0, ProcessAssumption DEF TypeOK, TidsUnique, Tid, ERROR
<1>2. \A p \in Page : \A i \in DOMAIN subs[p] :
        subs[p][i].exit_code \in Value /\ subs[p][i].pid \in Tid \cup {ERROR}
  BY Zenon, <1>0, EntryType
<1>4. CodeIsChilds'
  <2> SUFFICES ASSUME NEW p \in Page, NEW i \in DOMAIN subs[p],
                      subs'[p][i].exit_code \notin {JUNK, ERROR}
               PROVE  subs'[p][i].pid # ERROR /\ subs'[p][i].exit_code = ended'[subs'[p][i].pid]
    BY Zenon DEF CodeIsChilds
  <2>1. CASE subs'[p][i].exit_code = subs[p][i].exit_code
    <3>1. subs[p][i].pid # ERROR /\ subs[p][i].exit_code = ended[subs[p][i].pid]
      BY Zenon, <1>0, <2>1 DEF CodeIsChilds
    <3>2. ended'[subs[p][i].pid] = ended[subs[p][i].pid]
      <4>1. subs[p][i].pid \in Tid /\ ended[subs[p][i].pid] \in Value
        BY Zenon, <1>2, <3>1
      <4>2. CASE subs[p][i].pid = tid[a]
        BY Zenon, <4>1, <4>2, NullNoValue
      <4> QED BY Zenon, <4>1, <4>2
    <3> QED BY Zenon, <2>1, <3>1, <3>2
  <2>2. CASE subs'[p][i].exit_code # subs[p][i].exit_code
    <3>1. /\ subs[p][i].pid = tid[a]
          /\ subs'[p][i].exit_code \in {ERROR, ended'[tid[a]]}
          /\ subs'[p][i].pid = subs[p][i].pid
      BY <2>2
    <3> QED BY Zenon, <1>1, <3>1
  <2> QED BY Zenon, <2>1, <2>2
<1>5. EndedGone'
  <2>1. ASSUME NEW p \in Page, tid[p] # 0, ended'[tid[p]] # NULL
        PROVE  pc'[p] \in {"exit_flag", "exit_die", "none"}
    <3>1. tid[p] \in Tid
      BY <1>1, <2>1, ProcessAssumption DEF Tid
    <3>2. tid[p] = tid[a] => p = a
      BY <1>0, <2>1 DEF TidsUnique
    <3>3. CASE p = a
      <4>1. CASE ended'[tid[a]] = ended[tid[a]]
        <5>1. pc[a] \in {"exit_flag", "exit_die", "none"}
          BY Zenon, <1>0, <2>1, <3>3, <4>1 DEF EndedGone
        <5>2. pc[a] # "none"
          BY DEF IInv, PcState
        <5> QED BY Zenon, <3>3, <5>1, <5>2
      <4> QED BY <3>3, <4>1
    <3>4. CASE p # a
      BY Zenon, <1>0, <2>1, <3>1, <3>2, <3>4 DEF EndedGone
    <3> QED BY Zenon, <3>3, <3>4
  <2>2. ASSUME NEW p \in Page, NEW q \in Page, NEW i \in DOMAIN subs[p],
               subs'[p][i].exit_code # JUNK, subs[p][i].pid = tid[q]
        PROVE  pc'[q] \in {"exit_flag", "exit_die", "none", "fault"}
    <3>1. tid[q] # 0
      BY <1>2, <2>2, ProcessAssumption DEF Tid, ERROR
    <3>2. tid[q] = tid[a] => q = a
      BY Zenon, <1>0, <3>1 DEF TidsUnique
    <3>3. CASE subs'[p][i].exit_code = subs[p][i].exit_code
      <4>1. pc[q] \in {"exit_flag", "exit_die", "none", "fault"}
        BY Zenon, <1>0, <2>2, <3>3 DEF EndedGone
      <4>2. pc[a] # "none"
        BY DEF IInv, PcState
      <4> QED BY Zenon, <4>1, <4>2
    <3>4. CASE subs'[p][i].exit_code # subs[p][i].exit_code
      BY Zenon, <2>2, <3>2, <3>4
    <3> QED BY Zenon, <3>3, <3>4
  <2>3. \A p \in Page : tid'[p] # 0 /\ ended'[tid'[p]] # NULL =>
                          pc'[p] \in {"exit_flag", "exit_die", "none"}
    BY Zenon, <2>1
  <2>4. \A p, q \in Page : \A i \in DOMAIN subs'[p] :
          subs'[p][i].exit_code # JUNK /\ subs'[p][i].pid = tid'[q] =>
            pc'[q] \in {"exit_flag", "exit_die", "none", "fault"}
    BY <2>2
  <2> QED BY Zenon, <2>3, <2>4 DEF EndedGone
<1> QED BY Zenon, <1>4, <1>5

\* Such a step that leaves every status as it is.
LEMMA QuietStep ==
  ASSUME IInv, TypeOK', NEW a \in Page, state[a] = "ready",
         UNCHANGED <<tid, pt, subs, next_tid, parent, ended>>,
         \A p \in Page : /\ state'[p] = "free" <=> state[p] = "free"
                         /\ state'[p] = "dying" <=> state[p] = "dying",
         \A p \in Page : p # a => pc'[p] = pc[p] /\ arg'[p] = arg[p],
         pc[a] # "fault", pc'[a] \notin {"none", "register"},
         pc[a] \in {"exit_flag", "exit_die"} => pc'[a] \in {"exit_flag", "exit_die"},
         pc'[a] \in ArgPc => arg'[a] # NULL
  PROVE  IInv' /\ KeepsStatus
<1>1. RecordedOnce' /\ TidsUnique' /\ PcState' /\ Unrecorded'
  BY StepKeeps
<1>2. CodeIsChilds' /\ EndedGone'
  BY StepEnds
<1>3. KeepsStatus
  BY Zenon DEF KeepsStatus
<1> QED BY Zenon, <1>1, <1>2, <1>3 DEF IInv

\* A process at its program has no status yet, neither in the history nor in
\* a list.
LEMMA NoStatusYet ==
  ASSUME IInv, NEW a \in Page, state[a] = "ready", pc[a] \in {"user", "load", "register"}
  PROVE  /\ tid[a] \in Tid /\ ended[tid[a]] = NULL
         /\ \A p \in Page : \A i \in DOMAIN subs[p] :
              subs[p][i].pid = tid[a] => subs[p][i].exit_code = JUNK
<1>1. tid[a] \in Tid /\ tid[a] # 0
  BY ProcessAssumption DEF IInv, TypeOK, TidsUnique, Tid
<1>2. EndedGone
  BY DEF IInv
<1>3. ended[tid[a]] = NULL
  BY <1>1, <1>2 DEF EndedGone
<1>4. \A p \in Page : \A i \in DOMAIN subs[p] :
        subs[p][i].pid = tid[a] => subs[p][i].exit_code = JUNK
  BY <1>2 DEF EndedGone
<1> QED BY Zenon, <1>1, <1>3, <1>4

\* Such a step by which the process ends without a word to its parent.
LEMMA KilledStep ==
  ASSUME IInv, TypeOK', NEW a \in Page, state[a] = "ready", pc[a] \in {"user", "load"},
         Killed(a), Goto(a, "exit_flag"),
         UNCHANGED heap, UNCHANGED parent,
         \A p \in Page : p # a => arg'[p] = arg[p]
  PROVE  IInv' /\ KeepsStatus
<1>0. /\ tid[a] \in Tid /\ ended[tid[a]] = NULL
      /\ TypeOK
  BY Zenon, NoStatusYet DEF IInv
<1>1. UNCHANGED <<tid, state, pt, subs, next_tid>>
  BY Zenon DEF heap
<1>2. pc'[a] = "exit_flag" /\ \A p \in Page : p # a => pc'[p] = pc[p]
  BY <1>0 DEF Goto, TypeOK
<1>3. \A n \in Tid : n # tid[a] => ended'[n] = ended[n]
  BY <1>0 DEF Killed, TypeOK
<1>4. RecordedOnce' /\ TidsUnique' /\ PcState' /\ Unrecorded'
  BY <1>1, <1>2, <1>3, StepKeeps DEF ArgPc
<1>5. CodeIsChilds' /\ EndedGone'
  BY <1>0, <1>1, <1>2, <1>3, StepEnds
<1>6. KeepsStatus
  BY Zenon, <1>1 DEF KeepsStatus
<1> QED BY Zenon, <1>4, <1>5, <1>6 DEF IInv

\* What Tell() writes: a code, to entries of the process that tells.
LEMMA TellWrites ==
  ASSUME TypeOK, NEW p \in Page, pt[p] \in Page, NEW code \in Value, Tell(p, code)
  PROVE  /\ subs' \in [Page -> Seq(sub_thread)]
         /\ panic' \in BOOLEAN
         /\ \A q \in Page :
              /\ DOMAIN subs'[q] = DOMAIN subs[q]
              /\ \A i \in DOMAIN subs[q] :
                   /\ subs'[q][i].pid = subs[q][i].pid
                   /\ \/ subs'[q][i].exit_code = subs[q][i].exit_code
                      \/ subs[q][i].pid = tid[p] /\ subs'[q][i].exit_code = code
<1>1. CASE UNCHANGED subs
  BY <1>1 DEF TypeOK, Tell
<1>2. CASE Report(p, code) /\ UNCHANGED panic
  <2> DEFINE list == subs[pt[p]]
             mine == {i \in DOMAIN list : list[i].pid = tid[p]}
             new == [i \in DOMAIN list |->
                       IF i \in mine /\ \A j \in mine : i <= j
                       THEN [list[i] EXCEPT !.exit_code = code] ELSE list[i]]
  <2>1. subs' = [subs EXCEPT ![pt[p]] = new]
    BY Zenon, <1>2 DEF Report
  <2>2. subs \in [Page -> Seq(sub_thread)] /\ list \in Seq(sub_thread) /\ panic \in BOOLEAN
    BY Zenon DEF TypeOK
  <2>3. /\ DOMAIN list = 1 .. Len(list) /\ Len(list) \in Nat
        /\ \A i \in DOMAIN list : list[i] \in sub_thread
    BY Zenon, <2>2, LenProperties, EntryType
  <2>4. \A i \in DOMAIN list :
          /\ new[i] \in sub_thread /\ new[i].pid = list[i].pid
          /\ \/ new[i].exit_code = list[i].exit_code
             \/ list[i].pid = tid[p] /\ new[i].exit_code = code
    <3> SUFFICES ASSUME NEW i \in DOMAIN list
                 PROVE  /\ new[i] \in sub_thread /\ new[i].pid = list[i].pid
                        /\ \/ new[i].exit_code = list[i].exit_code
                           \/ list[i].pid = tid[p] /\ new[i].exit_code = code
      BY Zenon
    <3>1. list[i] \in sub_thread
      BY Zenon, <2>3
    <3>2. CASE i \in mine /\ \A j \in mine : i <= j
      <4>1. new[i] = [list[i] EXCEPT !.exit_code = code]
        BY Zenon, <3>2
      <4>2. list[i].pid = tid[p]
        BY Zenon, <3>2
      <4> HIDE DEF list, mine, new
      <4> QED BY <3>1, <4>1, <4>2 DEF sub_thread
    <3>3. CASE ~(i \in mine /\ \A j \in mine : i <= j)
      BY Zenon, <3>1, <3>3
    <3> QED BY Zenon, <3>2, <3>3
  <2>5. DOMAIN new = DOMAIN list
    BY Zenon
  <2>6. new \in Seq(sub_thread)
    <3>1. new \in [1 .. Len(list) -> sub_thread]
      BY Zenon, <2>3, <2>4
    <3> HIDE DEF new, list
    <3>2. Seq(sub_thread) = UNION {[1 .. n -> sub_thread] : n \in Nat}
      BY Zenon, SeqDef
    <3> QED BY <2>3, <3>1, <3>2
  <2>7. subs'[pt[p]] = new /\ \A q \in Page : q # pt[p] => subs'[q] = subs[q]
    BY Zenon, <2>1, <2>2
  <2>8. subs' \in [Page -> Seq(sub_thread)]
    BY Zenon, <2>1, <2>2, <2>6
  <2> HIDE DEF new, mine
  <2> QED BY Zenon, <1>2, <2>2, <2>4, <2>5, <2>7, <2>8
<1> QED BY Zenon, <1>1, <1>2 DEF Tell

\* A step by which a process leaves a status with its parent.
LEMMA TellStep ==
  ASSUME IInv, NEW a \in Page, a # main, state[a] = "ready", pc[a] = "user",
         NEW code \in Value, Tell(a, code),
         pc'[a] \in {"exit_flag", "fault"}, pc' = [pc EXCEPT ![a] = pc'[a]],
         \/ UNCHANGED ended /\ code = ERROR
         \/ pc'[a] = "exit_flag" /\ ended' = [ended EXCEPT ![tid[a]] = code],
         UNCHANGED <<tid, state, pt, waited, next_tid, arg, parent>>
  PROVE  IInv' /\ KeepsStatus
<1>0. /\ tid[a] \in Tid /\ ended[tid[a]] = NULL
      /\ \A p \in Page : \A i \in DOMAIN subs[p] :
           subs[p][i].pid = tid[a] => subs[p][i].exit_code = JUNK
      /\ TypeOK
  BY Zenon, NoStatusYet DEF IInv
<1>1. pt[a] \in Page
  BY <1>0 DEF IInv, PcState, TypeOK
<1>2. /\ subs' \in [Page -> Seq(sub_thread)]
      /\ panic' \in BOOLEAN
      /\ \A q \in Page :
           /\ DOMAIN subs'[q] = DOMAIN subs[q]
           /\ \A i \in DOMAIN subs[q] :
                /\ subs'[q][i].pid = subs[q][i].pid
                /\ \/ subs'[q][i].exit_code = subs[q][i].exit_code
                   \/ subs[q][i].pid = tid[a] /\ subs'[q][i].exit_code = code
  BY <1>0, <1>1, TellWrites
<1>3. /\ \A p \in Page : p # a => pc'[p] = pc[p]
      /\ pc' \in [Page -> PC]
  BY Zenon, <1>0 DEF TypeOK, PC
<1>4. /\ \A n \in Tid : n # tid[a] => ended'[n] = ended[n]
      /\ ended' \in [Tid -> Value \cup {NULL}]
      /\ code \in {ERROR, ended'[tid[a]]}
      /\ pc'[a] = "exit_flag" \/ ended'[tid[a]] = ended[tid[a]]
  <2>1. ended \in [Tid -> Value \cup {NULL}]
    BY Zenon, <1>0 DEF TypeOK
  <2>2. CASE UNCHANGED ended /\ code = ERROR
    BY Zenon, <2>1, <2>2
  <2>3. CASE pc'[a] = "exit_flag" /\ ended' = [ended EXCEPT ![tid[a]] = code]
    BY <1>0, <2>1, <2>3
  <2> QED BY Zenon, <2>2, <2>3
<1>5. TypeOK'
  BY Zenon, <1>0, <1>2, <1>3, <1>4 DEF TypeOK
<1>6. RecordedOnce' /\ TidsUnique' /\ PcState' /\ Unrecorded'
  <2>1. /\ pc'[a] \notin {"none", "register"}
        /\ pc'[a] \in ArgPc => arg'[a] # NULL
    BY DEF ArgPc
  <2>2. \A p \in Page : /\ state'[p] = "free" <=> state[p] = "free"
                        /\ state'[p] = "dying" <=> state[p] = "dying"
    BY Zenon
  <2>3. /\ \A n \in Tid : n # tid[a] => ended'[n] = ended[n]
        /\ \A p \in Page : p # a => pc'[p] = pc[p] /\ arg'[p] = arg[p]
        /\ UNCHANGED <<tid, pt, next_tid, parent>>
    BY Zenon, <1>3, <1>4
  <2>4. \A p \in Page : /\ DOMAIN subs'[p] = DOMAIN subs[p]
                        /\ \A i \in DOMAIN subs[p] : subs'[p][i].pid = subs[p][i].pid
    BY Zenon, <1>2
  <2> QED BY Zenon, <2>1, <2>2, <2>3, <2>4, StepKeeps
<1>7. CodeIsChilds' /\ EndedGone'
  <2>1. \A p \in Page :
          /\ DOMAIN subs'[p] = DOMAIN subs[p]
          /\ \A i \in DOMAIN subs[p] :
               /\ subs'[p][i].pid = subs[p][i].pid
               /\ \/ subs'[p][i].exit_code = subs[p][i].exit_code
                  \/ /\ subs[p][i].pid = tid[a]
                     /\ subs'[p][i].exit_code \in {ERROR, ended'[tid[a]]}
                     /\ pc'[a] \in {"exit_flag", "fault"}
    BY Zenon, <1>2, <1>4
  <2>2. \/ ended'[tid[a]] = ended[tid[a]]
        \/ ended[tid[a]] = NULL /\ pc'[a] = "exit_flag"
    BY Zenon, <1>0, <1>4
  <2>3. /\ pc'[a] # "none" /\ pc[a] # "fault"
        /\ pc[a] \in {"exit_flag", "exit_die"} => pc'[a] \in {"exit_flag", "exit_die"}
    OBVIOUS
  <2>4. tid' = tid
    BY Zenon
  <2> QED BY Zenon, <1>3, <1>4, <2>1, <2>2, <2>3, <2>4, StepEnds
<1>8. KeepsStatus
  BY Zenon, <1>0, <1>2 DEF KeepsStatus
<1> QED BY Zenon, <1>5, <1>6, <1>7, <1>8 DEF IInv

----------------------------------------------------------------------------
(* The steps that record, create and bury. *)

\* An entry is appended to a list.
LEMMA AppendEntries ==
  ASSUME TypeOK, NEW p \in Page, NEW e \in sub_thread,
         subs' = [subs EXCEPT ![p] = Append(@, e)]
  PROVE  /\ subs' \in [Page -> Seq(sub_thread)]
         /\ \A q \in Page : q # p => subs'[q] = subs[q]
         /\ \A i \in DOMAIN subs[p] : i \in DOMAIN subs'[p] /\ subs'[p][i] = subs[p][i]
         /\ \A i \in DOMAIN subs'[p] : i \in DOMAIN subs[p] \/ subs'[p][i] = e
         /\ \A i, j \in DOMAIN subs'[p] : i \notin DOMAIN subs[p] /\ j \notin DOMAIN subs[p] => i = j
<1>1. subs \in [Page -> Seq(sub_thread)] /\ subs[p] \in Seq(sub_thread)
  BY Zenon DEF TypeOK
<1>2. /\ subs'[p] = Append(subs[p], e)
      /\ \A q \in Page : q # p => subs'[q] = subs[q]
  BY Zenon, <1>1
<1>3. Append(subs[p], e) \in Seq(sub_thread)
  BY <1>1
<1>4. subs' \in [Page -> Seq(sub_thread)]
  BY Zenon, <1>1, <1>3
<1>5. /\ DOMAIN subs[p] = 1 .. Len(subs[p]) /\ Len(subs[p]) \in Nat
      /\ DOMAIN subs'[p] = 1 .. Len(subs[p]) + 1
      /\ \A i \in 1 .. Len(subs[p]) : subs'[p][i] = subs[p][i]
      /\ subs'[p][Len(subs[p]) + 1] = e
  BY <1>1, <1>2
<1>6. \A i \in DOMAIN subs'[p] : i \in DOMAIN subs[p] \/ i = Len(subs[p]) + 1
  BY <1>5
<1>7. \A i \in DOMAIN subs[p] : i \in DOMAIN subs'[p]
  BY <1>5
<1> QED BY Zenon, <1>2, <1>4, <1>5, <1>6, <1>7

\* A process records a child, or the failure to create one.
LEMMA RecordStep ==
  ASSUME IInv, NEW p \in Page, state[p] = "ready", pc[p] \in {"user", "register"},
         NEW e \in sub_thread, e.exit_code = JUNK,
         \/ e.pid = ERROR
         \/ parent[e.pid] = tid[p] /\ \A i \in DOMAIN subs[p] : subs[p][i].pid # e.pid,
         subs' = [subs EXCEPT ![p] = Append(@, e)],
         UNCHANGED <<tid, state, pt, next_tid, parent, ended>>,
         \A q \in Page : q # p => pc'[q] = pc[q] /\ arg'[q] = arg[q],
         pc'[p] \in {"user", "task_wait"}, pc'[p] = "task_wait" => arg'[p] # NULL
  PROVE  /\ RecordedOnce' /\ CodeIsChilds' /\ TidsUnique' /\ PcState'
         /\ Unrecorded' /\ EndedGone' /\ KeepsStatus
<1>0. /\ TypeOK /\ RecordedOnce /\ CodeIsChilds /\ TidsUnique /\ PcState
      /\ Unrecorded /\ EndedGone
  BY DEF IInv
<1>1. /\ \A q \in Page : q # p => subs'[q] = subs[q]
      /\ \A i \in DOMAIN subs[p] : i \in DOMAIN subs'[p] /\ subs'[p][i] = subs[p][i]
      /\ \A i \in DOMAIN subs'[p] : i \in DOMAIN subs[p] \/ subs'[p][i] = e
      /\ \A i, j \in DOMAIN subs'[p] : i \notin DOMAIN subs[p] /\ j \notin DOMAIN subs[p] => i = j
  BY <1>0, AppendEntries
<1>2. /\ tid[p] \in Tid /\ ended[tid[p]] = NULL
      /\ \A q \in Page : \A i \in DOMAIN subs[q] :
           subs[q][i].pid = tid[p] => subs[q][i].exit_code = JUNK
  BY NoStatusYet
<1>3. TidsUnique'
  BY Zenon, <1>0 DEF TidsUnique
<1>4. PcState'
  BY <1>0 DEF PcState
<1>5. Unrecorded'
  <2> SUFFICES ASSUME NEW q \in Page, pc'[q] = "register"
               PROVE  /\ parent'[arg'[q].tid] = tid'[q]
                      /\ \A i \in DOMAIN subs'[q] : subs'[q][i].pid # arg'[q].tid
    BY Zenon DEF Unrecorded
  <2>1. q # p
    OBVIOUS
  <2> QED BY <1>0, <1>1, <2>1 DEF Unrecorded
<1>6. RecordedOnce'
  <2>1. \A q, r \in Page : Alive(q)' /\ Alive(r)' /\ tid'[q] = tid'[r] => q = r
    BY Zenon, <1>0 DEF RecordedOnce, Alive
  <2>2. ASSUME NEW q \in Page, NEW i \in DOMAIN subs'[q], subs'[q][i].pid # ERROR
        PROVE  /\ parent'[subs'[q][i].pid] = tid'[q]
               /\ \A j \in DOMAIN subs'[q] : subs'[q][j].pid = subs'[q][i].pid => j = i
    <3>1. CASE q # p
      BY <1>0, <1>1, <2>2, <3>1 DEF RecordedOnce
    <3>2. CASE q = p /\ i \in DOMAIN subs[p]
      <4>1. /\ parent[subs[p][i].pid] = tid[p]
            /\ \A j \in DOMAIN subs[p] : subs[p][j].pid = subs[p][i].pid => j = i
        BY <1>0, <1>1, <2>2, <3>2 DEF RecordedOnce
      <4>2. subs'[p][i] = subs[p][i]
        BY Zenon, <1>1, <3>2
      <4>3. e.pid # subs[p][i].pid
        BY Zenon, <2>2, <3>2, <4>2
      <4> QED BY <1>1, <3>2, <4>1, <4>2, <4>3
    <3>3. CASE q = p /\ i \notin DOMAIN subs[p]
      <4>1. subs'[p][i] = e
        BY Zenon, <1>1, <2>2, <3>3
      <4>2. parent[e.pid] = tid[p] /\ \A j \in DOMAIN subs[p] : subs[p][j].pid # e.pid
        BY Zenon, <2>2, <3>3, <4>1
      <4> QED BY <1>1, <2>2, <3>3, <4>1, <4>2
    <3> QED BY Zenon, <3>1, <3>2, <3>3
  <2> QED BY Zenon, <2>1, <2>2 DEF RecordedOnce
<1>7. CodeIsChilds'
  <2> SUFFICES ASSUME NEW q \in Page, NEW i \in DOMAIN subs'[q],
                      subs'[q][i].exit_code \notin {JUNK, ERROR}
               PROVE  subs'[q][i].pid # ERROR /\ subs'[q][i].exit_code = ended'[subs'[q][i].pid]
    BY Zenon DEF CodeIsChilds
  <2>1. i \in DOMAIN subs[q] /\ subs'[q][i] = subs[q][i]
    BY <1>1
  <2> QED BY <1>0, <2>1 DEF CodeIsChilds
<1>8. EndedGone'
  <2>1. ASSUME NEW q \in Page, tid'[q] # 0, ended'[tid'[q]] # NULL
        PROVE  pc'[q] \in {"exit_flag", "exit_die", "none"}
    <3>1. q # p
      BY Zenon, <1>2, <2>1
    <3> QED BY Zenon, <1>0, <2>1, <3>1 DEF EndedGone
  <2>2. ASSUME NEW r \in Page, NEW q \in Page, NEW i \in DOMAIN subs'[r],
               subs'[r][i].exit_code # JUNK, subs'[r][i].pid = tid'[q]
        PROVE  pc'[q] \in {"exit_flag", "exit_die", "none", "fault"}
    <3>1. i \in DOMAIN subs[r] /\ subs'[r][i] = subs[r][i]
      BY <1>1, <2>2
    <3>2. q # p
      BY <1>2, <2>2, <3>1
    <3> QED BY <1>0, <2>2, <3>1, <3>2 DEF EndedGone
  <2> QED BY Zenon, <2>1, <2>2 DEF EndedGone
<1>9. KeepsStatus
  BY <1>1 DEF KeepsStatus
<1> QED BY Zenon, <1>3, <1>4, <1>5, <1>6, <1>7, <1>8, <1>9

\* A process is created in a free page.
LEMMA CreateStep ==
  ASSUME IInv, NEW p \in Page, NEW q \in Page, state[p] = "ready", pc[p] = "user",
         thread_create_with_pt(p, q)
  PROVE  IInv' /\ KeepsStatus
<1>0. /\ TypeOK /\ RecordedOnce /\ CodeIsChilds /\ TidsUnique /\ PcState
      /\ Unrecorded /\ EndedGone
  BY DEF IInv
<1>1. /\ p # q /\ next_tid \in Tid /\ tid[q] = 0
      /\ tid[p] \in Tid /\ ended[tid[p]] = NULL
      /\ \A r \in Page : \A i \in DOMAIN subs[r] :
           subs[r][i].pid = tid[p] => subs[r][i].exit_code = JUNK
  <2>1. p # q /\ next_tid \in Tid /\ tid[q] = 0
    BY <1>0, ProcessAssumption DEF thread_create_with_pt, TypeOK, Tid, TidsUnique
  <2> QED BY <2>1, NoStatusYet
<1>2. /\ tid'[q] = next_tid /\ \A r \in Page : r # q => tid'[r] = tid[r]
      /\ state'[q] = "ready" /\ \A r \in Page : r # q => state'[r] = state[r]
      /\ pt'[q] = p /\ \A r \in Page : r # q => pt'[r] = pt[r]
      /\ subs'[q] = <<>> /\ \A r \in Page : r # q => subs'[r] = subs[r]
  BY <1>0 DEF thread_create_with_pt, TypeOK
<1>3. /\ pc'[q] = "load" /\ pc'[p] = "register"
      /\ \A r \in Page : r \notin {p, q} => pc'[r] = pc[r]
      /\ arg'[p] = [st |-> q, tid |-> next_tid] /\ \A r \in Page : r # p => arg'[r] = arg[r]
      /\ parent'[next_tid] = tid[p] /\ \A n \in Tid : n # next_tid => parent'[n] = parent[n]
      /\ next_tid' = next_tid + 1 /\ ended' = ended
  BY <1>0, <1>1 DEF thread_create_with_pt, TypeOK
<1>4. TypeOK'
  <2>1. /\ tid' \in [Page -> 0 .. MaxTid] /\ next_tid' \in 1 .. MaxTid + 1
        /\ parent' \in [Tid -> Tid \cup {NULL}]
    <3>1. next_tid \in 0 .. MaxTid /\ next_tid' \in 1 .. MaxTid + 1
      BY <1>1, <1>3, ProcessAssumption DEF Tid
    <3>2. tid' \in [Page -> 0 .. MaxTid]
      BY Zenon, <1>0, <3>1 DEF thread_create_with_pt, TypeOK
    <3>3. parent' \in [Tid -> Tid \cup {NULL}]
      BY Zenon, <1>0, <1>1 DEF thread_create_with_pt, TypeOK
    <3> QED BY Zenon, <3>1, <3>2, <3>3
  <2>2. subs' \in [Page -> Seq(sub_thread)]
    BY <1>0, EmptySeq DEF thread_create_with_pt, TypeOK
  <2>3. arg' \in [Page -> [st : Page, tid : Tid] \cup {NULL}]
    BY <1>0, <1>1 DEF thread_create_with_pt, TypeOK
  <2>4. /\ state' \in [Page -> {"free", "ready", "blocked", "dying"}]
        /\ pt' \in [Page -> Page \cup {NULL}]
        /\ waited' \in [Page -> BOOLEAN]
        /\ pc' \in [Page -> PC]
    BY <1>0 DEF thread_create_with_pt, TypeOK, PC
  <2> QED BY <1>0, <2>1, <2>2, <2>3, <2>4 DEF thread_create_with_pt, TypeOK
\* The new tid is in no list and waits to be recorded by nobody else.
<1>5. \A r \in Page : \A i \in DOMAIN subs[r] : subs[r][i].pid # next_tid
  <2>1. parent[next_tid] = NULL
    BY <1>0, <1>1, ProcessAssumption DEF TidsUnique, TypeOK
  <2>2. \A r \in Page : tid[r] # NULL
    BY <1>0, ProcessAssumption DEF TypeOK
  <2>3. next_tid # ERROR
    BY <1>1, ProcessAssumption DEF Tid, ERROR
  <2> QED BY <1>0, <2>1, <2>2, <2>3 DEF RecordedOnce
<1>6. \A r \in Page : pc[r] = "register" => arg[r].tid \in Tid /\ arg[r].tid # next_tid
  <2>1. parent[next_tid] = NULL
    BY <1>0, <1>1, ProcessAssumption DEF TidsUnique, TypeOK
  <2>2. \A r \in Page : tid[r] # NULL
    BY <1>0, ProcessAssumption DEF TypeOK
  <2>3. \A r \in Page : pc[r] = "register" => arg[r] \in [st : Page, tid : Tid]
    BY <1>0 DEF PcState, TypeOK
  <2> QED BY <1>0, <2>1, <2>2, <2>3 DEF Unrecorded
<1>7. \A r \in Page : \A i \in DOMAIN subs'[r] :
        r # q /\ i \in DOMAIN subs[r] /\ subs'[r][i] = subs[r][i]
  BY <1>2
<1>8. TidsUnique'
  <2>1. ASSUME NEW r \in Page
        PROVE  (state'[r] = "free" <=> tid'[r] = 0) /\ tid'[r] < next_tid'
    <3>1. next_tid \in Nat \ {0} /\ tid[r] \in Nat /\ tid[r] < next_tid
      BY <1>0, ProcessAssumption DEF TidsUnique, TypeOK
    <3>2. CASE r = q
      BY <1>2, <1>3, <3>1, <3>2
    <3>3. CASE r # q
      BY <1>0, <1>2, <1>3, <3>1, <3>3 DEF TidsUnique
    <3> QED BY Zenon, <3>2, <3>3
  <2>2. \A r, s \in Page : tid'[r] = tid'[s] /\ tid'[r] # 0 => r = s
    BY <1>0, <1>1, <1>2, ProcessAssumption DEF TidsUnique, TypeOK, Tid
  <2>3. \A n \in Tid : n >= next_tid' => parent'[n] = NULL /\ ended'[n] = NULL
    BY <1>0, <1>1, <1>3, ProcessAssumption DEF TidsUnique, TypeOK, Tid
  <2> QED BY <2>1, <2>2, <2>3 DEF TidsUnique
<1>9. PcState'
  <2>1. arg'[p] # NULL /\ pt'[q] # NULL
    <3>1. arg'[p] \in [st : Page, tid : Int]
      BY <1>1, <1>3, ProcessAssumption DEF Tid
    <3> QED BY Zenon, <1>2, <3>1, ProcessAssumption
  <2>2. \A r \in Page : pc'[r] = "none" <=> state'[r] \in {"free", "dying"}
    BY <1>0, <1>1, <1>2, <1>3 DEF PcState
  <2> QED BY <1>0, <1>1, <1>2, <1>3, <2>1, <2>2 DEF PcState
<1>10. Unrecorded'
  <2> SUFFICES ASSUME NEW r \in Page, pc'[r] = "register"
               PROVE  /\ parent'[arg'[r].tid] = tid'[r]
                      /\ \A i \in DOMAIN subs'[r] : subs'[r][i].pid # arg'[r].tid
    BY DEF Unrecorded
  <2>1. CASE r = p
    BY <1>1, <1>2, <1>3, <1>5, <2>1
  <2>2. CASE r # p
    <3>1. r # q /\ pc[r] = "register"
      BY <1>3, <2>2
    <3> QED BY <1>0, <1>2, <1>3, <1>6, <2>2, <3>1 DEF Unrecorded
  <2> QED BY <2>1, <2>2
<1>11. RecordedOnce'
  <2>1. \A r, s \in Page : Alive(r)' /\ Alive(s)' /\ tid'[r] = tid'[s] => r = s
    BY <1>8 DEF TidsUnique, Alive
  <2>2. ASSUME NEW r \in Page, NEW i \in DOMAIN subs'[r], subs'[r][i].pid # ERROR
        PROVE  /\ parent'[subs'[r][i].pid] = tid'[r]
               /\ \A j \in DOMAIN subs'[r] : subs'[r][j].pid = subs'[r][i].pid => j = i
    <3>1. r # q /\ i \in DOMAIN subs[r] /\ subs'[r] = subs[r] /\ tid'[r] = tid[r]
      BY <1>2, <1>7, <2>2
    <3>2. subs[r][i].pid \in Tid
      BY <1>0, <2>2, <3>1, EntryType
    <3> QED BY <1>0, <1>3, <1>5, <2>2, <3>1, <3>2 DEF RecordedOnce
  <2> QED BY <2>1, <2>2 DEF RecordedOnce
<1>12. CodeIsChilds'
  BY <1>0, <1>3, <1>7 DEF CodeIsChilds
<1>13. EndedGone'
  <2>1. ASSUME NEW r \in Page, tid'[r] # 0, ended'[tid'[r]] # NULL
        PROVE  pc'[r] \in {"exit_flag", "exit_die", "none"}
    <3>1. ended[next_tid] = NULL
      BY <1>0, <1>1, ProcessAssumption DEF TidsUnique, TypeOK
    <3>2. r # q /\ r # p
      BY <1>1, <1>2, <1>3, <2>1, <3>1
    <3> QED BY <1>0, <1>2, <1>3, <2>1, <3>2 DEF EndedGone
  <2>2. ASSUME NEW s \in Page, NEW r \in Page, NEW i \in DOMAIN subs'[s],
               subs'[s][i].exit_code # JUNK, subs'[s][i].pid = tid'[r]
        PROVE  pc'[r] \in {"exit_flag", "exit_die", "none", "fault"}
    <3>1. s # q /\ i \in DOMAIN subs[s] /\ subs'[s][i] = subs[s][i]
      BY <1>7, <2>2
    <3>2. r # q /\ r # p
      BY <1>1, <1>2, <1>5, <2>2, <3>1
    <3> QED BY <1>0, <1>2, <1>3, <2>2, <3>1, <3>2 DEF EndedGone
  <2> QED BY Zenon, <2>1, <2>2 DEF EndedGone
<1>14. KeepsStatus
  <2>1. tid'[q] # tid[q]
    BY <1>1, <1>2, ProcessAssumption DEF Tid
  <2> QED BY <1>2, <2>1 DEF KeepsStatus
<1> QED BY Zenon, <1>4, <1>8, <1>9, <1>10, <1>11, <1>12, <1>13, <1>14 DEF IInv

\* A process dies, and its page is freed.
LEMMA DieStep ==
  ASSUME IInv, NEW p \in Page, ExitDie(p)
  PROVE  IInv' /\ KeepsStatus
<1>0. /\ TypeOK /\ RecordedOnce /\ CodeIsChilds /\ TidsUnique /\ PcState
      /\ Unrecorded /\ EndedGone
  BY DEF IInv
<1>1. /\ state[p] = "ready" /\ pc[p] = "exit_die"
      /\ pc'[p] = "none" /\ \A r \in Page : r # p => pc'[r] = pc[r]
      /\ arg'[p] = NULL /\ \A r \in Page : r # p => arg'[r] = arg[r]
      /\ next_tid' = next_tid /\ parent' = parent /\ ended' = ended /\ panic' = panic
  BY <1>0 DEF ExitDie, At, Enter, Goto, TypeOK
<1>2. /\ \A r \in Page : r # p => /\ tid'[r] = tid[r] /\ state'[r] = state[r]
                                  /\ pt'[r] = pt[r] /\ subs'[r] = subs[r]
      /\ \/ /\ p = main /\ state'[p] = "dying"
            /\ tid'[p] = tid[p] /\ pt'[p] = pt[p] /\ subs'[p] = subs[p]
         \/ state'[p] = "free" /\ tid'[p] = 0 /\ subs'[p] = <<>>
  BY <1>0 DEF ExitDie, TypeOK
<1>3. TypeOK'
  <2>1. /\ pc' \in [Page -> PC]
        /\ arg' \in [Page -> [st : Page, tid : Tid] \cup {NULL}]
    BY <1>0 DEF ExitDie, Enter, Goto, TypeOK, PC
  <2>2. state' \in [Page -> {"free", "ready", "blocked", "dying"}]
    BY <1>0 DEF ExitDie, TypeOK
  <2>3. tid' \in [Page -> 0 .. MaxTid]
    <3>1. 0 \in 0 .. MaxTid
      BY ProcessAssumption
    <3> QED BY Zenon, <1>0, <3>1 DEF ExitDie, TypeOK
  <2>4. pt' \in [Page -> Page \cup {NULL}] /\ waited' \in [Page -> BOOLEAN]
    BY <1>0 DEF ExitDie, TypeOK
  <2>5. subs' \in [Page -> Seq(sub_thread)]
    <3>1. <<>> \in Seq(sub_thread)
      BY EmptySeq
    <3> QED BY Zenon, <1>0, <3>1 DEF ExitDie, TypeOK
  <2> QED BY <1>0, <1>1, <2>1, <2>2, <2>3, <2>4, <2>5 DEF TypeOK
<1>4. \A r \in Page : \A i \in DOMAIN subs'[r] :
        subs'[r] = subs[r] /\ tid'[r] = tid[r]
  BY <1>2
<1>5. TidsUnique'
  <2>1. \A r \in Page : state'[r] = "free" <=> tid'[r] = 0
    BY <1>0, <1>1, <1>2 DEF TidsUnique
  <2>2. \A r \in Page : tid'[r] < next_tid'
    <3>1. next_tid > 0 /\ \A r \in Page : tid[r] < next_tid
      BY <1>0 DEF TidsUnique, TypeOK
    <3> QED BY <1>1, <1>2, <3>1
  <2>3. \A r, s \in Page : tid'[r] = tid'[s] /\ tid'[r] # 0 => r = s
    BY <1>0, <1>2 DEF TidsUnique
  <2> QED BY <1>0, <1>1, <2>1, <2>2, <2>3 DEF TidsUnique
<1>6. PcState'
  BY <1>0, <1>1, <1>2 DEF PcState
<1>7. Unrecorded'
  BY <1>0, <1>1, <1>2 DEF Unrecorded
<1>8. RecordedOnce'
  <2>1. \A r, s \in Page : Alive(r)' /\ Alive(s)' /\ tid'[r] = tid'[s] => r = s
    BY <1>5 DEF TidsUnique, Alive
  <2> QED BY <1>0, <1>1, <1>4, <2>1 DEF RecordedOnce
<1>9. CodeIsChilds'
  BY <1>0, <1>1, <1>4 DEF CodeIsChilds
<1>10. EndedGone'
  <2>1. ASSUME NEW r \in Page, tid'[r] # 0, ended'[tid'[r]] # NULL
        PROVE  pc'[r] \in {"exit_flag", "exit_die", "none"}
    BY <1>0, <1>1, <1>2, <2>1 DEF EndedGone
  <2>2. ASSUME NEW s \in Page, NEW r \in Page, NEW i \in DOMAIN subs'[s],
               subs'[s][i].exit_code # JUNK, subs'[s][i].pid = tid'[r]
        PROVE  pc'[r] \in {"exit_flag", "exit_die", "none", "fault"}
    BY <1>0, <1>1, <1>2, <1>4, <2>2 DEF EndedGone
  <2> QED BY Zenon, <2>1, <2>2 DEF EndedGone
<1>11. KeepsStatus
  BY <1>0, <1>1, <1>2 DEF KeepsStatus, TidsUnique
<1> QED BY Zenon, <1>3, <1>5, <1>6, <1>7, <1>8, <1>9, <1>10, <1>11 DEF IInv

----------------------------------------------------------------------------
(* Every step *)

\* The state that a step inside a wait, or a fault, leaves behind.
LEMMA EnterTypeOK ==
  ASSUME TypeOK, NEW p \in Page, NEW l \in PC, NEW a \in [st : Page, tid : Tid] \cup {NULL},
         Enter(p, l, a), UNCHANGED <<heap, panic, parent, ended>>
  PROVE  /\ TypeOK'
         /\ pc'[p] = l /\ arg'[p] = a
         /\ \A q \in Page : q # p => pc'[q] = pc[q] /\ arg'[q] = arg[q]
<1>1. UNCHANGED <<tid, state, pt, waited, subs, next_tid, panic, parent, ended>>
  BY Zenon DEF heap
<1>2. pc' \in [Page -> PC] /\ arg' \in [Page -> [st : Page, tid : Tid] \cup {NULL}]
  BY Zenon DEF Enter, Goto, TypeOK
<1>3. TypeOK'
  BY Zenon, <1>1, <1>2 DEF TypeOK
<1>4. /\ pc'[p] = l /\ arg'[p] = a
      /\ \A q \in Page : q # p => pc'[q] = pc[q] /\ arg'[q] = arg[q]
  BY Zenon DEF Enter, Goto, TypeOK
<1> QED BY Zenon, <1>3, <1>4

\* A process goes from its program, or from a place in process_wait(), to
\* another.
LEMMA EnterStep ==
  ASSUME IInv, NEW p \in Page, state[p] = "ready",
         pc[p] \notin {"exit_flag", "exit_die", "fault"},
         NEW l \in PC \ {"none", "register"}, NEW a \in [st : Page, tid : Tid] \cup {NULL},
         l \in ArgPc => a # NULL,
         Enter(p, l, a), UNCHANGED <<heap, panic, parent, ended>>
  PROVE  IInv' /\ KeepsStatus
<1>1. TypeOK
  BY DEF IInv
<1>2. /\ TypeOK'
      /\ pc'[p] = l /\ arg'[p] = a
      /\ \A q \in Page : q # p => pc'[q] = pc[q] /\ arg'[q] = arg[q]
  BY <1>1, EnterTypeOK
<1>3. UNCHANGED <<tid, state, pt, subs, next_tid, parent, ended>>
  BY Zenon DEF heap
<1> QED BY <1>2, <1>3, QuietStep

\* process_wait()
LEMMA WaitStep ==
  ASSUME IInv, NEW p \in Page, NEW n \in Tid, process_wait(p, n)
  PROVE  IInv' /\ KeepsStatus
<1>1. /\ state[p] = "ready" /\ pc[p] \in {"user", "task_wait"}
      /\ UNCHANGED <<heap, panic, parent, ended>>
  BY DEF process_wait, At
<1>2. CASE \E st \in get_thread_by_pid(n) : Enter(p, "wait_check", [st |-> st, tid |-> n])
  <2>1. PICK st \in Page : Enter(p, "wait_check", [st |-> st, tid |-> n])
    BY Zenon, <1>2 DEF get_thread_by_pid
  <2>2. /\ [st |-> st, tid |-> n] \in [st : Page, tid : Tid]
        /\ [st |-> st, tid |-> n] \in [st : Page, tid : Int]
    BY DEF Tid
  <2>3. [st |-> st, tid |-> n] # NULL
    BY Zenon, <2>2, ProcessAssumption
  <2> QED BY <1>1, <2>1, <2>2, <2>3, EnterStep DEF PC
<1>3. CASE Enter(p, "user", NULL)
  BY <1>1, <1>3, EnterStep DEF PC, ArgPc
<1> QED BY Zenon, <1>2, <1>3 DEF process_wait

\* The other steps of process_wait().
LEMMA WaitRestStep ==
  ASSUME IInv, NEW p \in Page,
         WaitCheck(p) \/ WaitSet(p) \/ WaitBlock(p) \/ WaitResume(p)
  PROVE  IInv' /\ KeepsStatus
<1>0. TypeOK /\ PcState
  BY DEF IInv
<1>1. CASE WaitCheck(p)
  <2>1. state[p] = "ready" /\ pc[p] = "wait_check" /\ arg[p] # NULL
    BY <1>0, <1>1 DEF WaitCheck, At, PcState
  <2>2. UNCHANGED <<heap, panic, parent, ended>>
    BY Zenon, <1>1 DEF WaitCheck
  <2>3. CASE Enter(p, "user", NULL)
    BY <2>1, <2>2, <2>3, EnterStep DEF PC, ArgPc
  <2>4. CASE Goto(p, "wait_set") /\ UNCHANGED arg
    <3>1. arg[p] \in [st : Page, tid : Tid] \cup {NULL} /\ arg = [arg EXCEPT ![p] = arg[p]]
      BY <1>0 DEF TypeOK
    <3>2. Enter(p, "wait_set", arg[p])
      BY Zenon, <2>4, <3>1 DEF Enter
    <3> QED BY <2>1, <2>2, <3>1, <3>2, EnterStep DEF PC
  <2> QED BY Zenon, <1>1, <2>3, <2>4 DEF WaitCheck
<1>2. CASE WaitSet(p)
  <2>1. /\ state[p] = "ready" /\ pc[p] = "wait_set" /\ arg[p] # NULL
        /\ UNCHANGED <<tid, state, pt, subs, next_tid, arg, panic, parent, ended>>
    BY <1>0, <1>2 DEF WaitSet, At, PcState
  <2>2. waited' \in [Page -> BOOLEAN] /\ pc' \in [Page -> PC]
    BY <1>0, <1>2 DEF WaitSet, Goto, TypeOK, PC
  <2>3. TypeOK'
    BY Zenon, <1>0, <2>1, <2>2 DEF TypeOK
  <2>4. pc'[p] = "wait_block" /\ \A q \in Page : q # p => pc'[q] = pc[q]
    BY <1>0, <1>2 DEF WaitSet, Goto, TypeOK
  <2> QED BY <2>1, <2>3, <2>4, QuietStep
<1>3. CASE WaitBlock(p)
  <2>1. /\ state[p] = "ready" /\ pc[p] = "wait_block" /\ arg[p] # NULL
        /\ UNCHANGED <<tid, pt, waited, subs, next_tid, arg, panic, parent, ended>>
    BY <1>0, <1>3 DEF WaitBlock, At, PcState
  <2>2. /\ state' \in [Page -> {"free", "ready", "blocked", "dying"}]
        /\ pc' \in [Page -> PC]
    BY <1>0, <1>3 DEF WaitBlock, Goto, TypeOK, PC
  <2>3. TypeOK'
    BY Zenon, <1>0, <2>1, <2>2 DEF TypeOK
  <2>4. /\ pc'[p] = "wait_resume" /\ state'[p] = "blocked"
        /\ \A q \in Page : q # p => pc'[q] = pc[q] /\ state'[q] = state[q]
    BY <1>0, <1>3 DEF WaitBlock, Goto, TypeOK
  <2>5. \A q \in Page : /\ state'[q] = "free" <=> state[q] = "free"
                        /\ state'[q] = "dying" <=> state[q] = "dying"
    BY <2>1, <2>4
  <2> QED BY <2>1, <2>3, <2>4, <2>5, QuietStep
<1>4. CASE WaitResume(p)
  BY <1>4, EnterStep DEF WaitResume, At, PC, ArgPc
<1> QED BY Zenon, <1>1, <1>2, <1>3, <1>4

\* The end of a process, up to its death.
LEMMA ExitStep ==
  ASSUME IInv, NEW p \in Page,
         \/ start_process(p) \/ ExitFlag(p) \/ exit_unknown(p)
         \/ p = main /\ main_exit
  PROVE  IInv' /\ KeepsStatus
<1>0. TypeOK /\ PcState
  BY DEF IInv
<1>1. ASSUME state[p] = "ready", pc[p] \in {"user", "load"},
             Killed(p), Goto(p, "exit_flag"), UNCHANGED <<heap, panic, parent>>,
             UNCHANGED arg \/ arg' = [arg EXCEPT ![p] = NULL]
      PROVE  IInv' /\ KeepsStatus
  <2>1. UNCHANGED <<tid, state, pt, waited, subs, next_tid, panic, parent>>
    BY Zenon, <1>1 DEF heap
  <2>2. pc' \in [Page -> PC]
    BY <1>0, <1>1 DEF Goto, TypeOK, PC
  <2>3. ended' \in [Tid -> Value \cup {NULL}]
    BY Zenon, <1>0, <1>1 DEF Killed, Value, TypeOK
  <2>4. /\ arg' \in [Page -> [st : Page, tid : Tid] \cup {NULL}]
        /\ \A q \in Page : q # p => arg'[q] = arg[q]
    BY Zenon, <1>0, <1>1 DEF TypeOK
  <2>5. TypeOK'
    BY Zenon, <1>0, <2>1, <2>2, <2>3, <2>4 DEF TypeOK
  <2> QED BY <1>1, <2>4, <2>5, KilledStep
<1>2. CASE start_process(p)
  <2>1. /\ state[p] = "ready" /\ pc[p] = "load" /\ UNCHANGED <<heap, panic, parent>>
        /\ UNCHANGED arg
    BY <1>2 DEF start_process, At
  <2>2. CASE Goto(p, "user") /\ UNCHANGED ended
    <3>1. arg[p] \in [st : Page, tid : Tid] \cup {NULL} /\ arg = [arg EXCEPT ![p] = arg[p]]
      BY <1>0 DEF TypeOK
    <3>2. Enter(p, "user", arg[p])
      BY Zenon, <2>1, <2>2, <3>1 DEF Enter
    <3> QED BY <2>1, <2>2, <3>1, <3>2, EnterStep DEF PC, ArgPc
  <2>3. CASE Goto(p, "exit_flag") /\ Killed(p)
    BY <1>1, <2>1, <2>3
  <2> QED BY Zenon, <1>2, <2>2, <2>3 DEF start_process
<1>3. CASE exit_unknown(p)
  BY <1>1, <1>3 DEF exit_unknown, At, Enter
<1>4. CASE p = main /\ main_exit
  BY <1>1, <1>4 DEF main_exit, At, Enter
<1>5. CASE ExitFlag(p)
  <2>1. /\ state[p] = "ready" /\ pc[p] = "exit_flag"
        /\ UNCHANGED <<tid, pt, waited, subs, next_tid, arg, parent, ended>>
    BY <1>5 DEF ExitFlag, At
  <2>2. /\ pc' \in [Page -> PC] /\ pc'[p] = "exit_die"
        /\ \A q \in Page : q # p => pc'[q] = pc[q]
    BY <1>0, <1>5 DEF ExitFlag, Goto, TypeOK, PC
  <2>3. /\ state' \in [Page -> {"free", "ready", "blocked", "dying"}]
        /\ panic' \in BOOLEAN
        /\ \A q \in Page : /\ state'[q] = "free" <=> state[q] = "free"
                           /\ state'[q] = "dying" <=> state[q] = "dying"
    <3>1. CASE UNCHANGED state /\ panic' \in {panic, TRUE}
      BY Zenon, <1>0, <3>1 DEF TypeOK
    <3>2. CASE /\ pt[p] # NULL /\ state[pt[p]] = "blocked"
               /\ state' = [state EXCEPT ![pt[p]] = "ready"] /\ UNCHANGED panic
      <4>1. pt[p] \in Page /\ state \in [Page -> {"free", "ready", "blocked", "dying"}]
        BY Zenon, <1>0, <3>2 DEF TypeOK
      <4>2. panic' \in BOOLEAN
        BY Zenon, <1>0, <3>2 DEF TypeOK
      <4> QED BY <3>2, <4>1, <4>2
    <3> QED BY Zenon, <1>5, <3>1, <3>2 DEF ExitFlag
  <2>4. TypeOK'
    BY Zenon, <1>0, <2>1, <2>2, <2>3 DEF TypeOK
  <2>5. pc'[p] \notin {"none", "register"} /\ pc'[p] \notin ArgPc /\ pc[p] # "fault"
    BY <2>1, <2>2 DEF ArgPc
  <2>6. \A q \in Page : q # p => pc'[q] = pc[q] /\ arg'[q] = arg[q]
    BY <2>1, <2>2
  <2> QED BY <2>1, <2>2, <2>3, <2>4, <2>5, <2>6, QuietStep
<1> QED BY Zenon, <1>2, <1>3, <1>4, <1>5

\* exit() and process_invalid_exit()
LEMMA StatusStep ==
  ASSUME IInv, NEW p \in Page,
         process_invalid_exit(p) \/ \E code \in Code : exit(p, code)
  PROVE  IInv' /\ KeepsStatus
<1>0. pc \in [Page -> PC]
  BY DEF IInv, TypeOK
<1>1. CASE process_invalid_exit(p)
  <2>1. /\ p # main /\ state[p] = "ready" /\ pc[p] = "user" /\ Tell(p, ERROR)
        /\ UNCHANGED <<tid, state, pt, waited, next_tid, arg, parent>> /\ UNCHANGED ended
    BY <1>1 DEF process_invalid_exit, At
  <2>2. pc'[p] = "fault" /\ pc' = [pc EXCEPT ![p] = pc'[p]]
    BY <1>0, <1>1 DEF process_invalid_exit, Goto
  <2>3. ERROR \in Value
    BY Zenon DEF Value
  <2> QED BY <2>1, <2>2, <2>3, TellStep
<1>2. CASE \E code \in Code : exit(p, code)
  <2>1. PICK code \in Code : exit(p, code)
    BY <1>2
  <2>2. /\ p # main /\ state[p] = "ready" /\ pc[p] = "user" /\ Tell(p, code)
        /\ UNCHANGED <<tid, state, pt, waited, next_tid, arg, parent>>
        /\ ended' = [ended EXCEPT ![tid[p]] = code]
    BY Zenon, <2>1 DEF exit, At
  <2>3. pc'[p] = "exit_flag" /\ pc' = [pc EXCEPT ![p] = pc'[p]]
    BY <1>0, <2>1 DEF exit, Goto
  <2>4. code \in Value
    BY Zenon DEF Value
  <2> QED BY <2>2, <2>3, <2>4, TellStep
<1> QED BY Zenon, <1>1, <1>2

\* process_execute(), the rest of it included.
LEMMA ExecuteStep ==
  ASSUME IInv, NEW p \in Page, process_execute(p) \/ Register(p)
  PROVE  IInv' /\ KeepsStatus
<1>0. TypeOK /\ PcState /\ Unrecorded
  BY DEF IInv
<1>1. CASE process_execute(p)
  <2>1. state[p] = "ready" /\ pc[p] = "user"
    BY <1>1 DEF process_execute, At
  <2>2. CASE \E q \in Page : thread_create_with_pt(p, q)
    BY <2>1, <2>2, CreateStep
  <2>3. CASE /\ subs' = [subs EXCEPT ![p] = Append(@, [pid |-> ERROR, exit_code |-> JUNK])]
             /\ UNCHANGED <<tid, state, pt, waited, next_tid, pc, arg, panic, parent, ended>>
    <3> DEFINE e == [pid |-> ERROR, exit_code |-> JUNK]
    <3>1. e \in sub_thread /\ e.exit_code = JUNK /\ e.pid = ERROR
      BY DEF sub_thread, Value
    <3>2. subs' = [subs EXCEPT ![p] = Append(@, e)]
      BY Zenon, <2>3
    <3> HIDE DEF e
    <3>3. /\ RecordedOnce' /\ CodeIsChilds' /\ TidsUnique' /\ PcState'
          /\ Unrecorded' /\ EndedGone' /\ KeepsStatus
      BY <2>1, <2>3, <3>1, <3>2, RecordStep
    <3>4. subs' \in [Page -> Seq(sub_thread)]
      BY <1>0, <3>1, <3>2, AppendEntries
    <3>5. TypeOK'
      BY Zenon, <1>0, <2>3, <3>4 DEF TypeOK
    <3> QED BY Zenon, <3>3, <3>5 DEF IInv
  <2> QED BY Zenon, <1>1, <2>2, <2>3 DEF process_execute
<1>2. CASE Register(p)
  <2>1. /\ state[p] = "ready" /\ pc[p] = "register" /\ arg[p] # NULL
        /\ UNCHANGED <<tid, state, pt, waited, next_tid, panic, parent, ended>>
    BY <1>0, <1>2 DEF Register, At, PcState
  <2>2. arg[p] \in [st : Page, tid : Tid]
    BY Zenon, <1>0, <2>1 DEF TypeOK
  <2>3. PICK l \in {"user", "task_wait"}, a \in {NULL, arg[p]} :
          Enter(p, l, a) /\ (l = "task_wait" => a = arg[p])
    BY <1>2 DEF Register
  <2>4. /\ pc' \in [Page -> PC]
        /\ pc'[p] = l /\ \A q \in Page : q # p => pc'[q] = pc[q]
    BY <1>0, <2>3 DEF Enter, Goto, TypeOK, PC
  <2>5. /\ arg' \in [Page -> [st : Page, tid : Tid] \cup {NULL}]
        /\ arg'[p] = a /\ \A q \in Page : q # p => arg'[q] = arg[q]
    BY Zenon, <1>0, <2>2, <2>3 DEF Enter, TypeOK
  <2>6. CASE UNCHANGED subs
    <3>1. UNCHANGED <<heap, panic, parent, ended>>
      BY Zenon, <2>1, <2>6 DEF heap
    <3>2. l \in PC \ {"none", "register"} /\ (l \in ArgPc => a # NULL)
      BY <2>1, <2>3 DEF PC, ArgPc
    <3>3. a \in [st : Page, tid : Tid] \cup {NULL}
      BY Zenon, <2>2, <2>3
    <3> QED BY <2>1, <2>3, <3>1, <3>2, <3>3, EnterStep
  <2>7. CASE subs' = [subs EXCEPT ![p] = Append(@, [pid |-> arg[p].tid, exit_code |-> JUNK])]
    <3> DEFINE e == [pid |-> arg[p].tid, exit_code |-> JUNK]
    <3>1. e \in sub_thread /\ e.exit_code = JUNK /\ e.pid = arg[p].tid
      BY <2>2 DEF sub_thread, Value
    <3>2. subs' = [subs EXCEPT ![p] = Append(@, e)]
      BY Zenon, <2>7
    <3> HIDE DEF e
    <3>3. parent[e.pid] = tid[p] /\ \A i \in DOMAIN subs[p] : subs[p][i].pid # e.pid
      BY Zenon, <1>0, <2>1, <3>1 DEF Unrecorded
    <3>4. pc'[p] \in {"user", "task_wait"} /\ (pc'[p] = "task_wait" => arg'[p] # NULL)
      BY Zenon, <2>1, <2>3, <2>4, <2>5
    <3>5. /\ RecordedOnce' /\ CodeIsChilds' /\ TidsUnique' /\ PcState'
          /\ Unrecorded' /\ EndedGone' /\ KeepsStatus
      BY <2>1, <2>4, <2>5, <3>1, <3>2, <3>3, <3>4, RecordStep
    <3>6. subs' \in [Page -> Seq(sub_thread)]
      BY <1>0, <3>1, <3>2, AppendEntries
    <3>7. TypeOK'
      BY Zenon, <1>0, <2>1, <2>4, <2>5, <3>6 DEF TypeOK
    <3> QED BY Zenon, <3>5, <3>7 DEF IInv
  <2> QED BY Zenon, <1>2, <2>6, <2>7 DEF Register
<1> QED BY Zenon, <1>1, <1>2

\* Nothing happens.
LEMMA StutterIInv == IInv /\ UNCHANGED vars => IInv'
<1> SUFFICES ASSUME IInv, UNCHANGED vars PROVE IInv'
  OBVIOUS
<1>0. /\ TypeOK /\ RecordedOnce /\ CodeIsChilds /\ TidsUnique /\ PcState
      /\ Unrecorded /\ EndedGone
  BY DEF IInv
<1>1. /\ UNCHANGED <<tid, state, pt, waited, subs, next_tid>>
      /\ UNCHANGED <<pc, arg, panic, parent, ended>>
  BY DEF vars, heap
<1>2. TypeOK'
  BY <1>0, <1>1 DEF TypeOK
<1>3. RecordedOnce'
  BY <1>0, <1>1 DEF RecordedOnce, Alive
<1>4. CodeIsChilds' /\ Unrecorded'
  BY <1>0, <1>1 DEF CodeIsChilds, Unrecorded
<1>5. TidsUnique' /\ PcState'
  BY <1>0, <1>1 DEF TidsUnique, PcState
<1>6. EndedGone'
  BY <1>0, <1>1 DEF EndedGone
<1> QED BY Zenon, <1>2, <1>3, <1>4, <1>5, <1>6 DEF IInv

\* Every step keeps the invariant and what has been recorded.
LEMMA NextIInv ==
  ASSUME IInv, [Next]_vars
  PROVE  IInv' /\ (KeepsStatus \/ UNCHANGED vars)
<1>1. CASE main_exit
  BY <1>1, ExitStep, ProcessAssumption
<1>2. ASSUME NEW p \in Page, Continue(p)
      PROVE  IInv' /\ KeepsStatus
  <2>1. CASE Register(p)
    BY <2>1, ExecuteStep
  <2>2. CASE start_process(p) \/ ExitFlag(p)
    BY <2>2, ExitStep
  <2>3. CASE WaitCheck(p) \/ WaitSet(p) \/ WaitBlock(p) \/ WaitResume(p)
    BY <2>3, WaitRestStep
  <2>4. CASE ExitDie(p)
    BY <2>4, DieStep
  <2>5. CASE \E n \in Tid : process_wait(p, n)
    BY <2>5, WaitStep
  <2> QED BY Zenon, <1>2, <2>1, <2>2, <2>3, <2>4, <2>5 DEF Continue
<1>3. ASSUME NEW p \in Page, Call(p)
      PROVE  IInv' /\ KeepsStatus
  <2>1. CASE process_execute(p)
    BY <2>1, ExecuteStep
  <2>2. CASE \E n \in Tid : process_wait(p, n)
    BY <2>2, WaitStep
  <2>3. CASE process_invalid_exit(p) \/ \E code \in Code : exit(p, code)
    BY <2>3, StatusStep
  <2>4. CASE exit_unknown(p)
    BY <2>4, ExitStep
  <2>5. CASE page_fault(p)
    BY <2>5, EnterStep DEF page_fault, At, PC, ArgPc
  <2> QED BY Zenon, <1>3, <2>1, <2>2, <2>3, <2>4, <2>5 DEF Call
<1>4. CASE UNCHANGED vars
  BY Zenon, <1>4, StutterIInv
<1> QED BY Zenon, <1>1, <1>2, <1>3, <1>4 DEF Next

----------------------------------------------------------------------------

\* The inductive invariant of the processes always holds.
THEOREM Invariant == Spec => []IInv
<1>1. IInv /\ [Next]_vars => IInv'
  BY NextIInv
<1> QED BY InitIInv, <1>1, PTL DEF Spec

\* The sub_threads lists that process_execute() and exit() keep hold each
\* process once at most, in the list of the process that created it, with a
\* code that the process itself ended with, for any number of pages, processes
\* and codes: the reuse of pages and tids never mixes two processes up.
THEOREM ChildrenAlwaysRecorded == Spec => []ChildrenRecorded
<1>1. IInv => ChildrenRecorded
  BY Zenon DEF IInv, ChildrenRecorded
<1> QED BY Invariant, <1>1, PTL

\* An exit status that a child has left with its parent is never overwritten
\* and its entry never moves while the parent lives.
THEOREM StatusWrittenOnce == Spec => StatusFinal
<1>1. IInv /\ [Next]_vars => [KeepsStatus]_vars
  BY NextIInv
<1> QED BY Invariant, <1>1, PTL DEF Spec, StatusFinal
=============================================================================
