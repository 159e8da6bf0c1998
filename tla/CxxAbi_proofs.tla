---------------------------- MODULE CxxAbi_proofs ----------------------------
(***************************************************************************)
(* For any number of CPUs and entries: the types of the runtime's state,   *)
(* the lock of __cxa_finalize, and the list of destructors, which every    *)
(* destructor registered leaves once, the newest first.                    *)
(***************************************************************************)
EXTENDS CxxAbi, Induction

(* A CPU that is past the search has found an entry, and one that is past  *)
(* new has been given one.                                                 *)
LocalsOK ==
  \A c \in Cpus :
    /\ pc[c] \in {"unlink", "call", "in_dtor", "stuck"} => dtor[c] \in Infos
    /\ apc[c] # "idle" => new_info[c] \in Infos

(* The inductive invariant.                                                *)
IInv == TypeOK /\ LocalsOK /\ Exclusion

LEMMA InitIInv == Init => IInv
<1> SUFFICES ASSUME Init PROVE IInv
  OBVIOUS
<1>1. TypeOK
  <2>1. ran \in Seq(Nat) /\ count \in Nat /\ ctor \in Nat
    BY DEF Init
  <2> QED
    BY <2>1 DEF Init, TypeOK
<1>2. LocalsOK
  BY DEF Init, LocalsOK
<1>3. Exclusion
  BY DEF Init, Exclusion, InLoop
<1> QED
  BY <1>1, <1>2, <1>3 DEF IInv

LEMMA AtInfos == ASSUME TypeOK, NEW c \in Cpus PROVE At(c) \in Infos \union {NoInfo}
BY DEF TypeOK, At

(* Steps of __cxa_finalize and what they change.                           *)
LEMMA FinalizeTypeOK ==
  ASSUME TypeOK, LocalsOK, NEW c \in Cpus,
         \/ Lock(c) \/ FindInfo(c) \/ KeepInfo(c) \/ Unlink(c)
         \/ CallDtor(c) \/ DtorReturns(c) \/ UnLock(c)
  PROVE  TypeOK' /\ LocalsOK'
<1>1. CASE Lock(c)
  <2>1. TypeOK'
    BY <1>1 DEF TypeOK, LocalsOK, Goto, Lock, atexit, kernel
  <2>2. LocalsOK'
    BY <1>1 DEF TypeOK, LocalsOK, Goto, Lock, atexit, kernel
  <2> QED
    BY <2>1, <2>2
<1>2. CASE FindInfo(c)
  <2>1. TypeOK'
    BY <1>2, AtInfos DEF TypeOK, LocalsOK, Goto, FindInfo, list, atexit, kernel
  <2>2. LocalsOK'
    BY <1>2, AtInfos DEF TypeOK, LocalsOK, Goto, FindInfo, list, atexit, kernel
  <2> QED
    BY <2>1, <2>2
<1>3. CASE KeepInfo(c)
  <2>1. TypeOK'
    BY <1>3, AtInfos DEF TypeOK, LocalsOK, Goto, KeepInfo, list, atexit, kernel
  <2>2. LocalsOK'
    BY <1>3, AtInfos DEF TypeOK, LocalsOK, Goto, KeepInfo, list, atexit, kernel
  <2> QED
    BY <2>1, <2>2
<1>4. CASE Unlink(c)
  <2>1. TypeOK'
    BY <1>4 DEF TypeOK, LocalsOK, Goto, Unlink, atexit, kernel
  <2>2. LocalsOK'
    BY <1>4 DEF TypeOK, LocalsOK, Goto, Unlink, atexit, kernel
  <2> QED
    BY <2>1, <2>2
<1>5. CASE CallDtor(c)
  <2>1. TypeOK'
    BY <1>5 DEF TypeOK, LocalsOK, Goto, CallDtor, list, atexit, kernel
  <2>2. LocalsOK'
    BY <1>5 DEF TypeOK, LocalsOK, Goto, CallDtor, list, atexit, kernel
  <2> QED
    BY <2>1, <2>2
<1>6. CASE DtorReturns(c)
  <2>1. TypeOK'
    BY <1>6 DEF TypeOK, LocalsOK, Goto, DtorReturns, kernel
  <2>2. LocalsOK'
    BY <1>6 DEF TypeOK, LocalsOK, Goto, DtorReturns, kernel
  <2> QED
    BY <2>1, <2>2
<1>7. CASE UnLock(c)
  <2>1. TypeOK'
    BY <1>7 DEF TypeOK, LocalsOK, Goto, UnLock, atexit, kernel
  <2>2. LocalsOK'
    BY <1>7 DEF TypeOK, LocalsOK, Goto, UnLock, atexit, kernel
  <2> QED
    BY <2>1, <2>2
<1> QED
  BY <1>1, <1>2, <1>3, <1>4, <1>5, <1>6, <1>7

(* Steps of __cxa_atexit, and the beginnings of calls.                     *)
LEMMA AtexitTypeOK ==
  ASSUME TypeOK, LocalsOK, NEW c \in Cpus,
         \/ \E d \in Dsos : FillInfo(c, d)
         \/ LinkInfo(c)
         \/ Call(c)
  PROVE  TypeOK' /\ LocalsOK'
<1>1. CASE \E d \in Dsos : FillInfo(c, d)
  <2>1. TypeOK'
    BY <1>1 DEF TypeOK, LocalsOK, Goto, FillInfo, finalize, kernel
  <2>2. LocalsOK'
    BY <1>1 DEF TypeOK, LocalsOK, Goto, FillInfo, finalize, kernel
  <2> QED
    BY <2>1, <2>2
<1>2. CASE LinkInfo(c)
  <2>1. TypeOK'
    BY <1>2 DEF TypeOK, LocalsOK, Goto, LinkInfo, finalize, kernel
  <2>2. LocalsOK'
    BY <1>2 DEF TypeOK, LocalsOK, Goto, LinkInfo, finalize, kernel
  <2> QED
    BY <2>1, <2>2
<1>3. CASE Atexit(c)
  <2>1. TypeOK'
    BY <1>3 DEF TypeOK, LocalsOK, Goto, Atexit, finalize, kernel
  <2>2. LocalsOK'
    BY <1>3 DEF TypeOK, LocalsOK, Goto, Atexit, finalize, kernel
  <2> QED
    BY <2>1, <2>2
<1>4. CASE \E d \in Dsos \union {AnyDso} : Finalize(c, d)
  <2>1. TypeOK'
    BY <1>4 DEF TypeOK, LocalsOK, Goto, Finalize, list, atexit, kernel
  <2>2. LocalsOK'
    BY <1>4 DEF TypeOK, LocalsOK, Goto, Finalize, list, atexit, kernel
  <2> QED
    BY <2>1, <2>2
<1>5. CASE FinalizeInDtor(c)
  <2>1. TypeOK'
    BY <1>5 DEF TypeOK, LocalsOK, Goto, FinalizeInDtor, list, atexit, kernel
  <2>2. LocalsOK'
    BY <1>5 DEF TypeOK, LocalsOK, Goto, FinalizeInDtor, list, atexit, kernel
  <2> QED
    BY <2>1, <2>2
<1> QED
  BY <1>1, <1>2, <1>3, <1>4, <1>5 DEF Call

(* The constructors, and the steps that change nothing.                    *)
LEMMA KernelKeeps ==
  ASSUME IInv,
         \/ CallConstructor
         \/ \E error \in {-1, 0, 1} : ConstructorReturns(error)
         \/ UNCHANGED vars
  PROVE  IInv'
<1> USE DEF IInv, TypeOK, LocalsOK, Exclusion, InLoop, list, finalize, atexit
<1>1. CASE CallConstructor
  BY <1>1 DEF CallConstructor
<1>2. CASE \E error \in {-1, 0, 1} : ConstructorReturns(error)
  BY <1>2 DEF ConstructorReturns
<1>3. CASE UNCHANGED vars
  BY <1>3 DEF vars, kernel
<1> QED
  BY <1>1, <1>2, <1>3

(* Only Lock and UnLock go into the loop and out of it, and only they      *)
(* write the lock.                                                         *)
LEMMA StepExclusion == ASSUME TypeOK, Exclusion, NEW c \in Cpus, Step(c) \/ Call(c)
                       PROVE  Exclusion'
<1> USE DEF TypeOK, Exclusion, InLoop, Goto
<1>1. CASE Lock(c)
  BY <1>1 DEF Lock
<1>2. CASE UnLock(c)
  BY <1>2 DEF UnLock
<1>3. CASE FindInfo(c) \/ KeepInfo(c) \/ Unlink(c) \/ CallDtor(c) \/ DtorReturns(c) \/ FinalizeInDtor(c)
  BY <1>3, ZenonT(30) DEF FindInfo, KeepInfo, Unlink, CallDtor, DtorReturns, FinalizeInDtor, list
<1>4. CASE \/ \E d \in Dsos : FillInfo(c, d)
           \/ LinkInfo(c)
           \/ Atexit(c)
           \/ \E d \in Dsos \union {AnyDso} : Finalize(c, d)
  BY <1>4 DEF FillInfo, LinkInfo, Atexit, Finalize, finalize, list
<1> QED
  BY <1>1, <1>2, <1>3, <1>4 DEF Step, Call

LEMMA NextIInv == IInv /\ [Next]_vars => IInv'
<1> SUFFICES ASSUME IInv, [Next]_vars PROVE IInv'
  OBVIOUS
<1>1. ASSUME NEW c \in Cpus, Step(c) \/ Call(c) PROVE IInv'
  <2>1. TypeOK' /\ LocalsOK'
    BY <1>1, FinalizeTypeOK, AtexitTypeOK DEF IInv, Step
  <2>2. Exclusion'
    BY <1>1, StepExclusion DEF IInv
  <2> QED
    BY <2>1, <2>2 DEF IInv
<1>2. CASE Rest \/ Damaged \/ UNCHANGED vars
  BY <1>2, KernelKeeps DEF Rest, Damaged
<1> QED
  BY <1>1, <1>2, KernelKeeps DEF Next

(* For any number of CPUs, entries and registrations: __cxa_finalize goes  *)
(* through the list on one CPU at a time, and the lock is taken exactly    *)
(* while it does.                                                          *)
THEOREM FinalizesAlone == Spec => []Exclusion
<1>1. IInv => Exclusion
  BY DEF IInv
<1> QED
  BY <1>1, InitIInv, NextIInv, PTL DEF Spec

(* Every pointer of the runtime is nullptr or an entry, and every index    *)
(* of its state is in range.                                               *)
THEOREM RuntimeTypes == Spec => []TypeOK
<1>1. IInv => TypeOK
  BY DEF IInv
<1> QED
  BY <1>1, InitIInv, NextIInv, PTL DEF Spec

-----------------------------------------------------------------------------
(***************************************************************************)
(* The list.  It is described by the numbers of its entries: an entry is   *)
(* on the list from when it got its number until a CPU has taken it in     *)
(* hand, and each one leads to the one with the next smaller number.       *)
(***************************************************************************)
InHandOf(c, e) == pc[c] \in {"call", "in_dtor", "stuck"} /\ dtor[c] = e
Linked == {e \in Infos : id[e] > 0 /\ \A c \in Cpus : ~ InHandOf(c, e)}
Below(e) == {f \in Linked : id[f] < id[e]}

(* x is the newest of the entries S, nullptr if there is none. *)
Newest(x, S) == IF S = {} THEN x = NoInfo ELSE x \in S /\ \A e \in S : id[e] <= id[x]

Chain ==
  /\ Newest(global_dtors, Linked)
  /\ \A e \in Linked : Newest(next[e], Below(e))

(* Every entry with a number is allocated and no two have the same; the    *)
(* entries that CPUs are about to link are different and have none yet.    *)
Numbers ==
  /\ \A e \in Infos : id[e] <= count /\ (id[e] > 0 => e \in allocated)
  /\ \A e, f \in Infos : id[e] = id[f] /\ id[e] > 0 => e = f
  /\ \A c \in Cpus : InHandOf(c, dtor[c]) => id[dtor[c]] > 0

Fresh ==
  /\ \A c \in Cpus : IF apc[c] = "idle" THEN new_info[c] = NoInfo
                     ELSE new_info[c] \in allocated /\ id[new_info[c]] = 0
  /\ \A c, d \in Cpus : c # d /\ new_info[c] = new_info[d] => new_info[c] = NoInfo

(* A CPU that goes through the list is at an entry that is on it. *)
Position ==
  \A c \in Cpus :
    /\ InLoop(c) => pdtor[c] \in Linked \cup {NoInfo} /\ since[c] <= count
    /\ pc[c] = "lock" => pdtor[c] = NoInfo
    /\ pc[c] = "unlink" => dtor[c] \in Linked

(* What it has gone past was registered later or is not for it. *)
Passed ==
  \A c \in Cpus : InLoop(c) /\ pdtor[c] # NoInfo =>
    \A e \in Linked : id[e] >= id[pdtor[c]] /\ id[e] <= since[c] => ~ Matches(c, e)

(* What it is about to call is newer than all it will call after that. *)
InReverse ==
  \A c \in Cpus : pc[c] = "call" =>
    \A e \in Linked : Matches(c, e) /\ id[e] <= since[c] => id[e] < id[dtor[c]]

(* Every number up to count is that of a destructor called or of an entry  *)
(* whose destructor was not.                                               *)
Called == {ran[k] : k \in DOMAIN ran}
Ran(e) == \E c \in Cpus : pc[c] \in {"in_dtor", "stuck"} /\ dtor[c] = e

Once ==
  /\ Called \subseteq 1 .. count
  /\ \A n \in 1 .. count : n \notin Called <=> \E e \in Infos : id[e] = n /\ ~ Ran(e)
  /\ \A k, l \in DOMAIN ran : ran[k] = ran[l] => k = l
  /\ \A e \in Infos : Ran(e) => id[e] \in Called

Sound == Numbers /\ Fresh /\ Chain /\ Position /\ Passed /\ InReverse /\ Once

(* The inductive invariant of the list. *)
LInv == raced \/ Sound

LEMMA InitSound == Init => Sound
<1> SUFFICES ASSUME Init PROVE Sound
  OBVIOUS
<1>1. Linked = {}
  BY DEF Init, Linked
<1>2. Numbers /\ Fresh
  BY DEF Init, Numbers, Fresh, InHandOf
<1>3. Chain
  BY <1>1 DEF Init, Chain, Newest
<1>4. Position /\ Passed /\ InReverse
  BY DEF Init, Position, Passed, InReverse, InLoop
<1>5. Once
  <2>1. Called = {} /\ 1 .. count = {}
    BY DEF Init, Called
  <2> QED
    BY <2>1 DEF Init, Once, Ran
<1> QED
  BY <1>2, <1>3, <1>4, <1>5 DEF Sound

(* Steps that leave the list as it is. *)
LEMMA ChainKept ==
  ASSUME Chain, Linked' = Linked, global_dtors' = global_dtors,
         \A e \in Linked : id'[e] = id[e] /\ next'[e] = next[e]
  PROVE  Chain'
<1>1. \A e \in Linked : Below(e)' = Below(e)
  BY DEF Below
<1>2. Newest(global_dtors, Linked)'
  BY DEF Chain, Newest
<1>3. ASSUME NEW e \in Linked PROVE Newest(next[e], Below(e))'
  <2>1. Newest(next[e], Below(e)) /\ Below(e) \subseteq Linked
    BY DEF Chain, Below
  <2> QED
    BY <1>1, <2>1 DEF Newest
<1> QED
  BY <1>2, <1>3 DEF Chain

LEMMA ListQuiet ==
  ASSUME Sound,
         UNCHANGED <<id, global_dtors, next, allocated, count, ran, apc, new_info>>,
         \A d \in Cpus : \A e : InHandOf(d, e)' <=> InHandOf(d, e),
         \A e : Ran(e)' <=> Ran(e)
  PROVE  Linked' = Linked /\ Numbers' /\ Fresh' /\ Chain' /\ Once'
<1>1. Linked' = Linked
  BY DEF Linked
<1>2. Numbers'
  <2>1. \A d \in Cpus : InHandOf(d, dtor[d])' => dtor'[d] = dtor[d] /\ InHandOf(d, dtor[d])
    <3> SUFFICES ASSUME NEW d \in Cpus, InHandOf(d, dtor[d])'
                 PROVE  dtor'[d] = dtor[d] /\ InHandOf(d, dtor[d])
      OBVIOUS
    <3>1. PICK e : e = dtor'[d]
      OBVIOUS
    <3>2. InHandOf(d, e)'
      BY <3>1 DEF InHandOf
    <3>3. InHandOf(d, e)
      BY <3>2
    <3> QED
      BY <3>1, <3>3 DEF InHandOf
  <2> QED
    BY <2>1 DEF Sound, Numbers
<1>3. Fresh'
  BY DEF Sound, Fresh
<1>4. Chain'
  BY <1>1, ChainKept DEF Sound
<1>5. Once'
  BY DEF Sound, Once, Called
<1> QED
  BY <1>1, <1>2, <1>3, <1>4, <1>5

LEMMA LockSound == ASSUME IInv, Sound, NEW c \in Cpus, Lock(c) PROVE Sound'
<1> USE DEF IInv, TypeOK
<1>1. /\ UNCHANGED <<id, global_dtors, next, dso_of, allocated, count, ran, apc, new_info>>
      /\ UNCHANGED <<dtor, pdtor, dso>>
      /\ pc[c] = "lock" /\ pc' = [pc EXCEPT ![c] = "loop"] /\ since' = [since EXCEPT ![c] = count]
  BY DEF Lock, Goto, atexit
<1>2. \A d \in Cpus : \A e : InHandOf(d, e)' <=> InHandOf(d, e)
  BY <1>1 DEF InHandOf
<1>3. \A e : Ran(e)' <=> Ran(e)
  BY <1>1 DEF Ran
<1>4. Linked' = Linked /\ Numbers' /\ Fresh' /\ Chain' /\ Once'
  BY <1>1, <1>2, <1>3, ListQuiet
<1>5. \A d \in Cpus : d # c => pc'[d] = pc[d] /\ since'[d] = since[d]
  BY <1>1
<1>6. pc'[c] = "loop" /\ since'[c] = count /\ pdtor[c] = NoInfo
  BY <1>1 DEF Sound, Position
<1>7. Position'
  BY <1>1, <1>4, <1>5, <1>6 DEF Sound, Position, InLoop
<1>8. Passed'
  BY <1>1, <1>4, <1>5, <1>6 DEF Sound, Passed, InLoop, Matches
<1>9. InReverse'
  BY <1>1, <1>4, <1>5, <1>6 DEF Sound, InReverse, Matches
<1> QED
  BY <1>4, <1>7, <1>8, <1>9 DEF Sound

(* What is left for a CPU to go through. *)
Ahead(c) == IF pdtor[c] = NoInfo THEN Linked ELSE Below(pdtor[c])

LEMMA AtNewest ==
  ASSUME Sound, NEW c \in Cpus, InLoop(c)
  PROVE  /\ Newest(At(c), Ahead(c))
         /\ At(c) # NoInfo => At(c) \in Linked
         /\ At(c) = NoInfo => Ahead(c) = {}
<1>1. pdtor[c] \in Linked \cup {NoInfo}
  BY DEF Sound, Position
<1>2. Newest(At(c), Ahead(c))
  BY <1>1 DEF Sound, Chain, At, Ahead
<1>3. Ahead(c) \subseteq Linked /\ NoInfo \notin Linked
  BY RuntimeAssumption DEF Ahead, Below, Linked
<1> QED
  BY <1>2, <1>3 DEF Newest

LEMMA FindSound == ASSUME IInv, Sound, NEW c \in Cpus, FindInfo(c) PROVE Sound'
<1> USE DEF IInv, TypeOK
<1>1. /\ UNCHANGED <<id, global_dtors, next, dso_of, allocated, count, ran, apc, new_info>>
      /\ UNCHANGED <<pdtor, dso, since>>
      /\ pc[c] = "loop" /\ pc' = [pc EXCEPT ![c] = "unlink"]
      /\ dtor' = [dtor EXCEPT ![c] = At(c)] /\ At(c) # NoInfo
  BY DEF FindInfo, Goto, atexit, list
<1>2. \A d \in Cpus : \A e : InHandOf(d, e)' <=> InHandOf(d, e)
  BY <1>1 DEF InHandOf
<1>3. \A e : Ran(e)' <=> Ran(e)
  BY <1>1 DEF Ran
<1>4. Linked' = Linked /\ Numbers' /\ Fresh' /\ Chain' /\ Once'
  BY <1>1, <1>2, <1>3, ListQuiet
<1>5. \A d \in Cpus : d # c => pc'[d] = pc[d] /\ dtor'[d] = dtor[d]
  BY <1>1
<1>6. pc'[c] = "unlink" /\ dtor'[c] = At(c)
  BY <1>1
<1>7. At(c) \in Linked
  BY <1>1, AtNewest DEF InLoop
<1>8. Position'
  BY <1>1, <1>4, <1>5, <1>6, <1>7 DEF Sound, Position, InLoop
<1>9. Passed'
  BY <1>1, <1>4, <1>5, <1>6 DEF Sound, Passed, InLoop, Matches
<1>10. InReverse'
  BY <1>1, <1>4, <1>5, <1>6 DEF Sound, InReverse, Matches
<1> QED
  BY <1>4, <1>8, <1>9, <1>10 DEF Sound

LEMMA KeepSound == ASSUME IInv, Sound, NEW c \in Cpus, KeepInfo(c) PROVE Sound'
<1> USE DEF IInv, TypeOK
<1> DEFINE x == At(c)
<1>1. /\ UNCHANGED <<id, global_dtors, next, dso_of, allocated, count, ran, apc, new_info>>
      /\ UNCHANGED <<pc, dtor, dso, since>>
      /\ pc[c] = "loop" /\ pdtor' = [pdtor EXCEPT ![c] = x]
      /\ x # NoInfo /\ ~ Matches(c, x)
  BY DEF KeepInfo, atexit, list
<1> HIDE DEF x
<1>2. \A d \in Cpus : \A e : InHandOf(d, e)' <=> InHandOf(d, e)
  BY <1>1 DEF InHandOf
<1>3. \A e : Ran(e)' <=> Ran(e)
  BY <1>1 DEF Ran
<1>4. Linked' = Linked /\ Numbers' /\ Fresh' /\ Chain' /\ Once'
  BY <1>1, <1>2, <1>3, ListQuiet
<1>5. \A d \in Cpus : d # c => pdtor'[d] = pdtor[d]
  BY <1>1
<1>6. pdtor'[c] = x
  BY <1>1
<1>7. x \in Linked /\ Newest(x, Ahead(c))
  BY <1>1, AtNewest DEF InLoop, x
<1>8. Position'
  BY <1>1, <1>4, <1>5, <1>6, <1>7 DEF Sound, Position, InLoop
<1>9. Passed'
  <2>1. ASSUME NEW e \in Linked, id[e] >= id[x], id[e] <= since[c], Matches(c, e)
        PROVE  FALSE
    <3>1. e # x
      BY <1>1, <2>1
    <3>2. id[e] # id[x]
      BY <1>7, <3>1 DEF Sound, Numbers, Linked
    <3>3. e \notin Ahead(c)
      BY <1>7, <2>1, <3>2 DEF Newest, Linked
    <3>4. pdtor[c] # NoInfo /\ id[e] >= id[pdtor[c]]
      BY <1>1, <3>3 DEF Ahead, Below, Linked, Sound, Position, InLoop
    <3> QED
      BY <1>1, <2>1, <3>4 DEF Sound, Passed, InLoop
  <2> QED
    BY <1>1, <1>4, <1>5, <1>6, <2>1 DEF Sound, Passed, InLoop, Matches
<1>10. InReverse'
  BY <1>1, <1>4, <1>5 DEF Sound, InReverse, Matches
<1> QED
  BY <1>4, <1>8, <1>9, <1>10 DEF Sound

LEMMA UnLockSound == ASSUME IInv, Sound, NEW c \in Cpus, UnLock(c) PROVE Sound'
<1> USE DEF IInv, TypeOK
<1>1. /\ UNCHANGED <<id, global_dtors, next, dso_of, allocated, count, ran, apc, new_info>>
      /\ pc[c] = "loop" /\ pc' = [pc EXCEPT ![c] = "idle"]
      /\ \A d \in Cpus : d # c => /\ pdtor'[d] = pdtor[d] /\ dtor'[d] = dtor[d]
                                  /\ dso'[d] = dso[d] /\ since'[d] = since[d]
  BY DEF UnLock, Goto, atexit
<1>2. \A d \in Cpus : d # c => pc'[d] = pc[d]
  BY <1>1
<1>3. pc'[c] = "idle"
  BY <1>1
<1>4. \A d \in Cpus : \A e : InHandOf(d, e)' <=> InHandOf(d, e)
  BY <1>1, <1>2, <1>3 DEF InHandOf
<1>5. \A e : Ran(e)' <=> Ran(e)
  BY <1>1, <1>2, <1>3 DEF Ran
<1>6. Linked' = Linked /\ Numbers' /\ Fresh' /\ Chain' /\ Once'
  BY <1>1, <1>4, <1>5, ListQuiet
<1>7. Position'
  BY <1>1, <1>2, <1>3, <1>6 DEF Sound, Position, InLoop
<1>8. Passed'
  BY <1>1, <1>2, <1>3, <1>6 DEF Sound, Passed, InLoop, Matches
<1>9. InReverse'
  BY <1>1, <1>2, <1>3, <1>6 DEF Sound, InReverse, Matches
<1> QED
  BY <1>6, <1>7, <1>8, <1>9 DEF Sound

(* The call of __cxa_finalize, from a destructor too. *)
LEMMA FinalizeSound ==
  ASSUME IInv, Sound, NEW c \in Cpus,
         (\E d \in Dsos \cup {AnyDso} : Finalize(c, d)) \/ FinalizeInDtor(c)
  PROVE  Sound'
<1> USE DEF IInv, TypeOK
<1>1. CASE \E d \in Dsos \cup {AnyDso} : Finalize(c, d)
  <2>1. /\ UNCHANGED <<id, global_dtors, next, dso_of, allocated, count, ran, apc, new_info>>
        /\ UNCHANGED <<dtor, since>>
        /\ pc[c] = "idle" /\ pc' = [pc EXCEPT ![c] = "lock"]
        /\ pdtor' = [pdtor EXCEPT ![c] = NoInfo]
        /\ \A d \in Cpus : d # c => dso'[d] = dso[d]
    BY <1>1 DEF Finalize, Goto, atexit, list
  <2>2. \A d \in Cpus : d # c => pc'[d] = pc[d] /\ pdtor'[d] = pdtor[d]
    BY <2>1
  <2>3. pc'[c] = "lock" /\ pdtor'[c] = NoInfo
    BY <2>1
  <2>4. \A d \in Cpus : \A e : InHandOf(d, e)' <=> InHandOf(d, e)
    BY <2>1, <2>2, <2>3 DEF InHandOf
  <2>5. \A e : Ran(e)' <=> Ran(e)
    BY <2>1, <2>2, <2>3 DEF Ran
  <2>6. Linked' = Linked /\ Numbers' /\ Fresh' /\ Chain' /\ Once'
    BY <2>1, <2>4, <2>5, ListQuiet
  <2>7. Position'
    BY <2>1, <2>2, <2>3, <2>6 DEF Sound, Position, InLoop
  <2>8. Passed'
    BY <2>1, <2>2, <2>3, <2>6 DEF Sound, Passed, InLoop, Matches
  <2>9. InReverse'
    BY <2>1, <2>2, <2>3, <2>6 DEF Sound, InReverse, Matches
  <2> QED
    BY <2>6, <2>7, <2>8, <2>9 DEF Sound
<1>2. CASE FinalizeInDtor(c)
  <2>1. /\ UNCHANGED <<id, global_dtors, next, dso_of, allocated, count, ran, apc, new_info>>
        /\ UNCHANGED <<dtor, since, pdtor, dso>>
        /\ pc[c] = "in_dtor" /\ pc' = [pc EXCEPT ![c] = "stuck"]
    BY <1>2 DEF FinalizeInDtor, Goto, atexit, list
  <2>2. \A d \in Cpus : d # c => pc'[d] = pc[d]
    BY <2>1
  <2>3. pc'[c] = "stuck"
    BY <2>1
  <2>4. \A d \in Cpus : \A e : InHandOf(d, e)' <=> InHandOf(d, e)
    BY <2>1, <2>2, <2>3 DEF InHandOf
  <2>5. \A e : Ran(e)' <=> Ran(e)
    BY <2>1, <2>2, <2>3 DEF Ran
  <2>6. Linked' = Linked /\ Numbers' /\ Fresh' /\ Chain' /\ Once'
    BY <2>1, <2>4, <2>5, ListQuiet
  <2>7. Position'
    BY <2>1, <2>2, <2>3, <2>6 DEF Sound, Position, InLoop
  <2>8. Passed'
    BY <2>1, <2>2, <2>3, <2>6 DEF Sound, Passed, InLoop, Matches
  <2>9. InReverse'
    BY <2>1, <2>2, <2>3, <2>6 DEF Sound, InReverse, Matches
  <2> QED
    BY <2>6, <2>7, <2>8, <2>9 DEF Sound
<1> QED
  BY <1>1, <1>2

LEMMA AtexitSound == ASSUME IInv, Sound, NEW c \in Cpus, Atexit(c) PROVE Sound'
<1> USE DEF IInv, TypeOK
<1>1. PICK x \in Infos \ allocated :
        /\ allocated' = allocated \cup {x} /\ new_info' = [new_info EXCEPT ![c] = x]
  BY DEF Atexit
<1>2. /\ UNCHANGED <<id, global_dtors, next, dso_of, count, ran>>
      /\ UNCHANGED <<pc, pdtor, dtor, dso, since>>
      /\ apc' = [apc EXCEPT ![c] = "read"]
  BY DEF Atexit, finalize
<1>3. Linked' = Linked
  BY <1>2 DEF Linked, InHandOf
<1>4. Numbers'
  BY <1>1, <1>2 DEF Sound, Numbers, InHandOf
<1>5. Fresh'
  <2>1. id[x] = 0
    BY DEF Sound, Numbers
  <2>2. /\ apc'[c] = "read" /\ new_info'[c] = x
        /\ \A d \in Cpus : d # c => apc'[d] = apc[d] /\ new_info'[d] = new_info[d]
    BY <1>1, <1>2
  <2>3. \A d \in Cpus : new_info[d] = NoInfo \/ new_info[d] \in allocated
    BY DEF Sound, Fresh
  <2>4. x # NoInfo
    BY RuntimeAssumption
  <2>5. \A d \in Cpus : d # c => new_info[d] # x
    BY <2>3, <2>4
  <2>6. \A d \in Cpus : IF apc'[d] = "idle" THEN new_info'[d] = NoInfo
                        ELSE new_info'[d] \in allocated' /\ id'[new_info'[d]] = 0
    BY <1>1, <1>2, <2>1, <2>2 DEF Sound, Fresh
  <2>7. \A d, e \in Cpus : d # e /\ new_info'[d] = new_info'[e] => new_info'[d] = NoInfo
    BY <2>2, <2>5 DEF Sound, Fresh
  <2> QED
    BY <2>6, <2>7 DEF Fresh
<1>6. Chain'
  BY <1>2, <1>3, ChainKept DEF Sound
<1>7. Position' /\ Passed' /\ InReverse'
  BY <1>2, <1>3 DEF Sound, Position, Passed, InReverse, InLoop, Matches
<1>8. Once'
  <2>1. \A e : Ran(e)' <=> Ran(e)
    BY <1>2 DEF Ran
  <2>2. Called' = Called
    BY <1>2 DEF Called
  <2> QED
    BY <1>2, <2>1, <2>2 DEF Sound, Once
<1> QED
  BY <1>4, <1>5, <1>6, <1>7, <1>8 DEF Sound

LEMMA FillSound ==
  ASSUME IInv, Sound, NEW c \in Cpus, NEW d \in Dsos, FillInfo(c, d)
  PROVE  Sound'
<1> USE DEF IInv, TypeOK
<1>0. PICK n : n = new_info[c]
  OBVIOUS
<1>1. /\ UNCHANGED <<id, global_dtors, allocated, count, ran, new_info>>
      /\ UNCHANGED <<pc, pdtor, dtor, dso, since>>
      /\ apc[c] = "read" /\ apc' = [apc EXCEPT ![c] = "write"]
      /\ next' = [next EXCEPT ![n] = global_dtors]
      /\ dso_of' = [dso_of EXCEPT ![n] = d]
  BY <1>0 DEF FillInfo, finalize
<1>2. n \notin Linked
  <2>1. id[n] = 0
    BY <1>0, <1>1 DEF Sound, Fresh
  <2> QED
    BY <2>1 DEF Linked
<1>3. Linked' = Linked
  BY <1>1 DEF Linked, InHandOf
<1>4. \A e \in Linked : next'[e] = next[e] /\ dso_of'[e] = dso_of[e]
  BY <1>1, <1>2 DEF Linked
<1>5. Numbers'
  BY <1>1 DEF Sound, Numbers, InHandOf
<1>6. Fresh'
  <2>1. apc'[c] = "write" /\ \A b \in Cpus : b # c => apc'[b] = apc[b]
    BY <1>1
  <2> QED
    BY <1>1, <2>1 DEF Sound, Fresh
<1>7. Chain'
  BY <1>1, <1>3, <1>4, ChainKept DEF Sound
<1>8. Position' /\ Passed' /\ InReverse'
  BY <1>1, <1>3, <1>4 DEF Sound, Position, Passed, InReverse, InLoop, Matches
<1>9. Once'
  <2>1. \A e : Ran(e)' <=> Ran(e)
    BY <1>1 DEF Ran
  <2>2. Called' = Called
    BY <1>1 DEF Called
  <2> QED
    BY <1>1, <2>1, <2>2 DEF Sound, Once
<1> QED
  BY <1>5, <1>6, <1>7, <1>8, <1>9 DEF Sound

(* The entry linked has the greatest number and leads to what was newest. *)
LEMMA LinkSound == ASSUME IInv, Sound, NEW c \in Cpus, LinkInfo(c), ~ raced' PROVE Sound'
<1> USE DEF IInv, TypeOK
<1>0. PICK n : n = new_info[c]
  OBVIOUS
<1>1. /\ UNCHANGED <<next, dso_of, allocated, ran>>
      /\ UNCHANGED <<pc, pdtor, dtor, dso, since>>
      /\ apc[c] = "write" /\ apc' = [apc EXCEPT ![c] = "idle"]
      /\ new_info' = [new_info EXCEPT ![c] = NoInfo]
      /\ global_dtors' = n /\ next[n] = global_dtors
      /\ count' = count + 1 /\ id' = [id EXCEPT ![n] = count + 1]
  BY <1>0 DEF LinkInfo, finalize
<1>2. n \in allocated /\ n \in Infos /\ id[n] = 0
  BY <1>0, <1>1 DEF Sound, Fresh
<1>3. id'[n] = count + 1 /\ \A e \in Infos : e # n => id'[e] = id[e]
  BY <1>1, <1>2
<1>4. \A b \in Cpus : ~ InHandOf(b, n)
  BY <1>2 DEF Sound, Numbers, InHandOf
<1>5. \A b \in Cpus : \A e : InHandOf(b, e)' <=> InHandOf(b, e)
  BY <1>1 DEF InHandOf
<1>6. Linked' = Linked \cup {n} /\ n \notin Linked
  BY <1>2, <1>3, <1>4, <1>5 DEF Linked
<1>7. \A e \in Linked : e # n /\ id'[e] = id[e] /\ id[e] <= count /\ id[e] \in Nat
  BY <1>3, <1>6 DEF Linked, Sound, Numbers
<1>8. Numbers'
  <2>1. \A e \in Infos : id'[e] <= count' /\ (id'[e] > 0 => e \in allocated')
    BY <1>1, <1>2, <1>3 DEF Sound, Numbers
  <2>2. \A e, f \in Infos : id'[e] = id'[f] /\ id'[e] > 0 => e = f
    BY <1>1, <1>2, <1>3 DEF Sound, Numbers
  <2>3. \A b \in Cpus : InHandOf(b, dtor[b]) => id'[dtor[b]] > 0
    BY <1>2, <1>3, <1>4 DEF Sound, Numbers, LocalsOK, InHandOf
  <2> QED
    BY <1>1, <1>5, <2>1, <2>2, <2>3 DEF Numbers, InHandOf
<1>9. Fresh'
  <2>1. /\ apc'[c] = "idle" /\ new_info'[c] = NoInfo
        /\ \A b \in Cpus : b # c => apc'[b] = apc[b] /\ new_info'[b] = new_info[b]
    BY <1>1
  <2>2. n # NoInfo
    BY <1>2, RuntimeAssumption
  <2>3. \A b \in Cpus : b # c => new_info[b] # n
    BY <1>0, <2>2 DEF Sound, Fresh
  <2>4. \A b \in Cpus : new_info[b] # NoInfo => new_info[b] \in Infos
    OBVIOUS
  <2>5. \A b \in Cpus : IF apc'[b] = "idle" THEN new_info'[b] = NoInfo
                        ELSE new_info'[b] \in allocated' /\ id'[new_info'[b]] = 0
    BY <1>1, <1>3, <2>1, <2>3 DEF Sound, Fresh
  <2>6. \A b, e \in Cpus : b # e /\ new_info'[b] = new_info'[e] => new_info'[b] = NoInfo
    BY <2>1 DEF Sound, Fresh
  <2> QED
    BY <2>5, <2>6 DEF Fresh
<1>10. Chain'
  <2>1. Newest(n, Linked)'
    BY <1>1, <1>2, <1>3, <1>6, <1>7 DEF Newest
  <2>2. ASSUME NEW e \in Linked PROVE Below(e)' = Below(e)
    BY <1>3, <1>6, <1>7 DEF Below
  <2>3. Below(n)' = Linked
    BY <1>1, <1>3, <1>6, <1>7 DEF Below
  <2>4. ASSUME NEW e \in Linked PROVE Newest(next[e], Below(e))'
    <3>1. \A f \in Below(e) : f \in Linked
      BY DEF Below
    <3> QED
      BY <1>1, <1>7, <2>2, <3>1 DEF Sound, Chain, Newest
  <2>5. Newest(next[n], Below(n))'
    BY <1>1, <1>7, <2>3 DEF Sound, Chain, Newest
  <2>6. Newest(global_dtors, Linked)'
    BY <1>1, <2>1 DEF Newest
  <2> QED
    BY <1>6, <2>4, <2>5, <2>6 DEF Chain
<1>11. \A b \in Cpus : InLoop(b) => ~ (id'[n] <= since[b])
  BY <1>1, <1>3 DEF Sound, Position
<1>12. Position'
  BY <1>1, <1>6 DEF Sound, Position, InLoop
<1>13. Passed'
  <2>1. ASSUME NEW b \in Cpus, InLoop(b), pdtor[b] # NoInfo, NEW e \in Linked',
               id'[e] >= id'[pdtor[b]], id'[e] <= since[b], Matches(b, e)
        PROVE  FALSE
    <3>1. e \in Linked
      BY <1>6, <1>11, <2>1
    <3>2. pdtor[b] \in Linked
      BY <2>1 DEF Sound, Position
    <3> QED
      BY <1>7, <2>1, <3>1, <3>2 DEF Sound, Passed
  <2> QED
    BY <1>1, <2>1 DEF Passed, InLoop, Matches
<1>14. InReverse'
  <2>1. ASSUME NEW b \in Cpus, pc[b] = "call", NEW e \in Linked',
               Matches(b, e), id'[e] <= since[b]
        PROVE  id'[e] < id'[dtor[b]]
    <3>1. e \in Linked
      BY <1>6, <1>11, <2>1 DEF InLoop
    <3>2. dtor[b] # n /\ dtor[b] \in Infos
      BY <1>4, <2>1 DEF InHandOf, LocalsOK
    <3> QED
      BY <1>3, <1>7, <2>1, <3>1, <3>2 DEF Sound, InReverse
  <2> QED
    BY <1>1, <2>1 DEF InReverse, Matches
<1>15. Once'
  <2>1. \A e : Ran(e)' <=> Ran(e)
    BY <1>1 DEF Ran
  <2>2. ~ Ran(n)
    BY <1>4 DEF Ran, InHandOf
  <2>3. Called' = Called /\ Called \subseteq 1 .. count /\ count + 1 \notin Called
    <3>1. Called' = Called
      BY <1>1 DEF Called
    <3>2. Called \subseteq 1 .. count
      BY DEF Sound, Once
    <3> QED
      BY <3>1, <3>2
  <2>4. ASSUME NEW m \in 1 .. count + 1
        PROVE  m \notin Called <=> \E e \in Infos : id'[e] = m /\ ~ Ran(e)
    <3>1. CASE m = count + 1
      BY <1>2, <1>3, <2>2, <2>3, <3>1
    <3>2. CASE m \in 1 .. count
      <4>1. \A e \in Infos : id[e] = m <=> id'[e] = m
        BY <1>2, <1>3, <3>2
      <4> QED
        BY <3>2, <4>1 DEF Sound, Once
    <3> QED
      BY <3>1, <3>2
  <2>5. \A e \in Infos : Ran(e) => id'[e] \in Called
    BY <1>3, <2>2 DEF Sound, Once
  <2>6. Called' \subseteq 1 .. count'
    BY <1>1, <2>3
  <2>7. \A m \in 1 .. count' : m \notin Called' <=> \E e \in Infos : id'[e] = m /\ ~ Ran(e)'
    BY <1>1, <2>1, <2>3, <2>4
  <2>8. \A k, l \in DOMAIN ran' : ran'[k] = ran'[l] => k = l
    BY <1>1 DEF Sound, Once
  <2> QED
    BY <2>1, <2>3, <2>5, <2>6, <2>7, <2>8 DEF Once
<1> QED
  BY <1>8, <1>9, <1>10, <1>12, <1>13, <1>14, <1>15 DEF Sound

(* The entry unlinked is the newest behind where the CPU is: what leads to *)
(* it then leads to the one that it leads to.                              *)
LEMMA UnlinkChain ==
  ASSUME IInv, Sound, NEW c \in Cpus, Unlink(c), NEW x, x = dtor[c], At(c) = x,
         pc[c] = "unlink", x \in Linked, Linked' = Linked \ {x}, Newest(x, Ahead(c))
  PROVE  Chain'
<1> USE DEF IInv, TypeOK
<1>1. id' = id /\ IsFiniteSet(Infos)
  BY RuntimeAssumption DEF Unlink, atexit
<1>2. \A e \in Linked : e \in Infos /\ id[e] \in Nat /\ (id[e] = id[x] => e = x)
  BY DEF Sound, Numbers, Linked
<1>3. Newest(global_dtors, Linked) /\ \A e \in Linked : Newest(next[e], Below(e))
  BY DEF Sound, Chain
<1>4. Below(x)' = Below(x) /\ \A e \in Linked : Below(e)' = Below(e) \ {x}
  BY <1>1, <1>2 DEF Below
<1>5. \A e \in Linked : id[e] <= id[x] => Below(e)' = Below(e)
  BY <1>2, <1>4 DEF Below
<1>6. CASE pdtor[c] = NoInfo
  <2>1. global_dtors' = next[x] /\ next' = next
    BY <1>6 DEF Unlink
  <2>2. \A e \in Linked : id[e] <= id[x]
    BY <1>6 DEF Newest, Ahead
  <2>3. Below(x) = Linked'
    BY <1>2, <2>2 DEF Below
  <2>4. Newest(next[x], Linked')
    BY <1>3, <2>3
  <2>5. Newest(global_dtors, Linked)'
    BY <1>1, <2>1, <2>4 DEF Newest
  <2>6. ASSUME NEW e \in Linked' PROVE Newest(next[e], Below(e))'
    <3>1. e \in Linked /\ Below(e)' = Below(e)
      BY <1>5, <2>2
    <3>2. Newest(next[e], Below(e))
      BY <1>3, <3>1
    <3> QED
      BY <1>1, <2>1, <3>1, <3>2 DEF Newest
  <2> QED
    BY <2>5, <2>6 DEF Chain
<1>7. CASE pdtor[c] # NoInfo
  <2>0. PICK p : p = pdtor[c]
    OBVIOUS
  <2>1. global_dtors' = global_dtors /\ next' = [next EXCEPT ![p] = next[x]]
    BY <1>7, <2>0 DEF Unlink
  <2>2. p \in Linked
    BY <1>7, <2>0 DEF Sound, Position, InLoop
  <2>3. Ahead(c) = Below(p) /\ Below(p) # {}
    <3>1. Ahead(c) = Below(p)
      BY <1>7, <2>0 DEF Ahead
    <3>2. x # NoInfo
      BY <1>2, RuntimeAssumption
    <3> QED
      BY <3>1, <3>2 DEF Newest
  <2>4. x \in Below(p) /\ id[x] < id[p] /\ \A e \in Below(p) : id[e] <= id[x]
    BY <2>3 DEF Newest, Below
  <2>5. Below(p) \ {x} = Below(x)
    BY <1>2, <2>2, <2>4 DEF Below
  <2>6. next'[p] = next[x] /\ \A e \in Linked : e # p => next'[e] = next[e]
    BY <1>2, <2>1, <2>2
  <2>7. p \in Linked' /\ p # x
    BY <1>2, <2>2, <2>4
  <2>8. Newest(global_dtors, Linked)'
    <3>1. global_dtors \in Linked /\ \A e \in Linked : id[e] <= id[global_dtors]
      BY <1>3, <2>2 DEF Newest
    <3>2. global_dtors # x
      BY <1>2, <2>2, <2>4, <3>1
    <3> QED
      BY <1>1, <2>1, <3>1, <3>2 DEF Newest
  <2>9. Newest(next[p], Below(p))'
    <3>1. Newest(next[x], Below(x))
      BY <1>3
    <3>2. Below(p)' = Below(x)
      BY <1>4, <2>2, <2>5
    <3> QED
      BY <1>1, <2>6, <3>1, <3>2 DEF Newest
  <2>10. ASSUME NEW e \in Linked', e # p PROVE Newest(next[e], Below(e))'
    <3>1. e \in Linked /\ next'[e] = next[e] /\ Newest(next[e], Below(e)) /\ id[e] # id[p]
      BY <1>3, <2>2, <2>6, <2>10 DEF Sound, Numbers, Linked
    <3>2. CASE id[e] < id[p]
      <4>1. id[e] <= id[x]
        BY <2>4, <3>1, <3>2 DEF Below
      <4>2. Below(e)' = Below(e)
        BY <1>5, <3>1, <4>1
      <4> QED
        BY <1>1, <3>1, <4>2 DEF Newest
    <3>3. CASE id[p] < id[e]
      <4>1. p \in Below(e) /\ Below(e)' = Below(e) \ {x}
        BY <1>4, <2>2, <3>1, <3>3 DEF Below
      <4>2. next[e] \in Below(e) /\ \A f \in Below(e) : id[f] <= id[next[e]]
        BY <3>1, <4>1 DEF Newest
      <4>3. id[p] <= id[next[e]] /\ next[e] \in Linked
        BY <4>1, <4>2 DEF Below
      <4>4. next[e] # x
        BY <1>2, <2>2, <2>4, <4>3
      <4> QED
        BY <1>1, <3>1, <4>1, <4>2, <4>4 DEF Newest
    <3> QED
      BY <1>2, <2>2, <3>1, <3>2, <3>3
  <2> QED
    BY <2>8, <2>9, <2>10 DEF Chain
<1> QED
  BY <1>6, <1>7

LEMMA UnlinkSound == ASSUME IInv, Sound, NEW c \in Cpus, Unlink(c), ~ raced' PROVE Sound'
<1> USE DEF IInv, TypeOK
<1>0. PICK x : x = dtor[c]
  OBVIOUS
<1>1. /\ UNCHANGED <<id, dso_of, allocated, count, ran, apc, new_info>>
      /\ UNCHANGED <<pdtor, dtor, dso, since>>
      /\ pc[c] = "unlink" /\ pc' = [pc EXCEPT ![c] = "call"] /\ At(c) = x
  BY <1>0 DEF Unlink, Goto, atexit
<1>2. pc'[c] = "call" /\ \A d \in Cpus : d # c => pc'[d] = pc[d]
  BY <1>1
<1>3. x \in Linked
  BY <1>0, <1>1 DEF Sound, Position
<1>4. \A d \in Cpus : d # c => ~ InLoop(d)
  BY <1>1 DEF Exclusion, InLoop
<1>5. \A d \in Cpus : \A e : ~ InHandOf(d, e)
  BY <1>1, <1>4 DEF InHandOf, InLoop
<1>6. \A d \in Cpus : \A e : InHandOf(d, e)' <=> (d = c /\ e = x)
  BY <1>0, <1>1, <1>2, <1>4 DEF InHandOf, InLoop
<1>7. Linked' = Linked \ {x}
  BY <1>1, <1>5, <1>6 DEF Linked
<1>8. Newest(x, Ahead(c))
  BY <1>1, AtNewest DEF InLoop
<1>9. Chain'
  BY <1>0, <1>1, <1>3, <1>7, <1>8, UnlinkChain
<1>10. Numbers'
  <2>1. \A d \in Cpus : InHandOf(d, dtor[d])' => id'[dtor'[d]] > 0
    BY <1>0, <1>1, <1>2, <1>3, <1>4 DEF InHandOf, InLoop, Linked
  <2> QED
    BY <1>1, <2>1 DEF Sound, Numbers
<1>11. Fresh'
  BY <1>1 DEF Sound, Fresh
<1>12. pdtor[c] # NoInfo => pdtor[c] \in Linked /\ id[x] < id[pdtor[c]]
  <2>1. x # NoInfo
    BY <1>3, RuntimeAssumption DEF Linked
  <2> QED
    BY <1>1, <1>8, <2>1 DEF Sound, Position, InLoop, Ahead, Newest, Below
<1>13. Position'
  <2>1. pdtor[c] \in Linked' \cup {NoInfo}
    <3>1. id[x] \in Nat
      BY <1>3 DEF Linked
    <3>2. pdtor[c] # NoInfo => pdtor[c] # x
      BY <1>12, <3>1
    <3> QED
      BY <1>7, <1>12, <3>2
  <2> QED
    BY <1>1, <1>2, <1>4, <2>1 DEF Sound, Position, InLoop
<1>14. Passed'
  BY <1>1, <1>2, <1>4, <1>7 DEF Sound, Passed, InLoop, Matches
<1>15. InReverse'
  <2>1. ASSUME NEW e \in Linked, e # x, Matches(c, e), id[e] <= since[c], ~(id[e] < id[x])
        PROVE  FALSE
    <3>1. id[e] > id[x]
      BY <1>3, <2>1 DEF Sound, Numbers, Linked
    <3>2. e \notin Ahead(c)
      BY <1>3, <1>8, <3>1 DEF Newest, Linked
    <3>3. pdtor[c] # NoInfo /\ id[e] >= id[pdtor[c]]
      BY <1>12, <3>2 DEF Ahead, Below, Linked
    <3> QED
      BY <1>1, <2>1, <3>3 DEF Sound, Passed, InLoop
  <2> QED
    BY <1>0, <1>1, <1>2, <1>4, <1>7, <2>1 DEF InReverse, InLoop, Matches
<1>16. Once'
  <2>1. \A e : Ran(e)' <=> Ran(e)
    BY <1>1, <1>2 DEF Ran
  <2>2. Called' = Called
    BY <1>1 DEF Called
  <2> QED
    BY <1>1, <2>1, <2>2 DEF Sound, Once
<1> QED
  BY <1>9, <1>10, <1>11, <1>13, <1>14, <1>15, <1>16 DEF Sound

(* The entry whose destructor is called was not on the list any more, and  *)
(* its number goes from the entries not called to those called.            *)
LEMMA CallSound == ASSUME IInv, Sound, NEW c \in Cpus, CallDtor(c) PROVE Sound'
<1> USE DEF IInv, TypeOK
<1>0. PICK x : x = dtor[c]
  OBVIOUS
<1>1. /\ UNCHANGED <<id, global_dtors, next, dso_of, allocated, count, apc, new_info>>
      /\ UNCHANGED <<pdtor, dtor, dso, since>>
      /\ pc[c] = "call" /\ pc' = [pc EXCEPT ![c] = "in_dtor"]
      /\ ran' = Append(ran, id[x])
  BY <1>0 DEF CallDtor, Goto, atexit, list
<1>2. pc'[c] = "in_dtor" /\ \A d \in Cpus : d # c => pc'[d] = pc[d]
  BY <1>1
<1>3. \A d \in Cpus : d # c => ~ InLoop(d)
  BY <1>1 DEF Exclusion, InLoop
<1>4. \A d \in Cpus : \A e : InHandOf(d, e)' <=> InHandOf(d, e)
  BY <1>1, <1>2 DEF InHandOf
<1>5. Linked' = Linked
  BY <1>1, <1>4 DEF Linked
<1>6. Numbers'
  <2>1. \A d \in Cpus : InHandOf(d, dtor[d])' => InHandOf(d, dtor[d])
    BY <1>1, <1>2 DEF InHandOf
  <2> QED
    BY <1>1, <2>1 DEF Sound, Numbers
<1>7. Fresh'
  BY <1>1 DEF Sound, Fresh
<1>8. Chain'
  BY <1>1, <1>5, ChainKept DEF Sound
<1>9. Position' /\ Passed'
  BY <1>1, <1>2, <1>5 DEF Sound, Position, Passed, InLoop, Matches
<1>10. InReverse'
  BY <1>1, <1>2, <1>3, <1>5 DEF InReverse, InLoop
<1>11. Once'
  <2>1. x \in Infos /\ id[x] \in 1 .. count
    <3>1. x \in Infos /\ InHandOf(c, dtor[c])
      BY <1>0, <1>1 DEF LocalsOK, InHandOf
    <3>2. id[x] > 0 /\ id[x] <= count
      BY <1>0, <3>1 DEF Sound, Numbers
    <3> QED
      BY <3>1, <3>2
  <2>2. \A e : ~ Ran(e)
    BY <1>1, <1>3 DEF Ran, InLoop
  <2>3. \A e : Ran(e)' <=> e = x
    BY <1>0, <1>1, <1>2, <1>3 DEF Ran, InLoop
  <2>4. Once
    BY DEF Sound
  <2>5. \A n \in 1 .. count : n \notin Called <=> \E e \in Infos : id[e] = n
    BY <2>2, <2>4 DEF Once
  <2>6. id[x] \notin Called
    BY <2>1, <2>5
  <2>7. DOMAIN ran = 1 .. Len(ran) /\ Len(ran) \in Nat
    OBVIOUS
  <2>8. /\ DOMAIN ran' = 1 .. Len(ran) + 1
        /\ \A k \in 1 .. Len(ran) : ran'[k] = ran[k]
        /\ ran'[Len(ran) + 1] = id[x]
    BY <1>1, <2>1
  <2>9. \A k \in DOMAIN ran : ran[k] # id[x]
    BY <2>6 DEF Called
  <2>10. Called' = Called \cup {id[x]}
    <3>1. ASSUME NEW k \in DOMAIN ran' PROVE ran'[k] \in Called \cup {id[x]}
      <4>1. k \in DOMAIN ran \/ k = Len(ran) + 1
        BY <2>7, <2>8
      <4> QED
        BY <2>7, <2>8, <4>1 DEF Called
    <3>2. ASSUME NEW n \in Called PROVE \E k \in DOMAIN ran' : n = ran'[k]
      <4>1. PICK k \in DOMAIN ran : n = ran[k]
        BY DEF Called
      <4>2. k \in DOMAIN ran' /\ ran'[k] = ran[k]
        BY <2>7, <2>8
      <4> QED
        BY <4>1, <4>2
    <3>3. Len(ran) + 1 \in DOMAIN ran'
      BY <2>7, <2>8
    <3>4. Called' = {ran'[k] : k \in DOMAIN ran'}
      BY DEF Called
    <3>5. Called' \subseteq Called \cup {id[x]}
      BY <3>1, <3>4
    <3>6. Called \subseteq Called'
      BY <3>2, <3>4
    <3>7. id[x] \in Called'
      BY <2>8, <3>3, <3>4
    <3> QED
      BY <3>5, <3>6, <3>7
  <2>11. ASSUME NEW k \in DOMAIN ran', NEW l \in DOMAIN ran', ran'[k] = ran'[l]
         PROVE  k = l
    <3>1. /\ k \in DOMAIN ran \/ k = Len(ran) + 1
          /\ l \in DOMAIN ran \/ l = Len(ran) + 1
      BY <2>7, <2>8
    <3>2. \A j \in DOMAIN ran : ran'[j] = ran[j]
      BY <2>7, <2>8
    <3>3. \A i, j \in DOMAIN ran : ran[i] = ran[j] => i = j
      BY <2>4 DEF Once
    <3> QED
      BY <2>8, <2>9, <2>11, <3>1, <3>2, <3>3
  <2>12. Called' \subseteq 1 .. count'
    BY <1>1, <2>1, <2>4, <2>10 DEF Once
  <2>13. \A e \in Infos : id[e] = id[x] => e = x
    BY <2>1 DEF Sound, Numbers
  <2>14. \A n \in 1 .. count : n \notin Called' <=> \E e \in Infos : id[e] = n /\ e # x
    BY <2>1, <2>5, <2>10, <2>13
  <2>15. \A n \in 1 .. count' : n \notin Called' <=> \E e \in Infos : id'[e] = n /\ ~ Ran(e)'
    BY <1>1, <2>3, <2>14
  <2>16. \A e \in Infos : Ran(e)' => id'[e] \in Called'
    BY <1>1, <2>3, <2>10
  <2> QED
    BY <2>11, <2>12, <2>15, <2>16 DEF Once
<1> QED
  BY <1>6, <1>7, <1>8, <1>9, <1>10, <1>11 DEF Sound

LEMMA ReturnSound == ASSUME IInv, Sound, NEW c \in Cpus, DtorReturns(c) PROVE Sound'
<1> USE DEF IInv, TypeOK
<1>0. PICK x : x = dtor[c]
  OBVIOUS
<1>1. /\ UNCHANGED <<global_dtors, count, ran, apc, new_info, pdtor, dso, since>>
      /\ pc[c] = "in_dtor" /\ pc' = [pc EXCEPT ![c] = "loop"]
      /\ dtor' = [dtor EXCEPT ![c] = NoInfo]
      /\ allocated' = allocated \ {x} /\ id' = [id EXCEPT ![x] = 0]
      /\ next' = [next EXCEPT ![x] = NoInfo] /\ dso_of' = [dso_of EXCEPT ![x] = AnyDso]
  BY <1>0 DEF DtorReturns, Goto
<1>2. /\ pc'[c] = "loop"
      /\ \A d \in Cpus : d # c => pc'[d] = pc[d] /\ dtor'[d] = dtor[d]
  BY <1>1
<1>3. \A d \in Cpus : d # c => ~ InLoop(d)
  BY <1>1 DEF Exclusion, InLoop
<1>4. x \in Infos /\ id[x] > 0 /\ InHandOf(c, x) /\ Ran(x)
  <2>1. InHandOf(c, dtor[c]) /\ x \in Infos
    BY <1>0, <1>1 DEF InHandOf, LocalsOK
  <2>2. Ran(x)
    BY <1>0, <1>1 DEF Ran
  <2> QED
    BY <1>0, <2>1, <2>2 DEF Sound, Numbers
<1>5. /\ id'[x] = 0 /\ x \notin allocated'
      /\ \A e \in Infos : e # x => /\ id'[e] = id[e] /\ next'[e] = next[e] /\ dso_of'[e] = dso_of[e]
                                   /\ e \in allocated' <=> e \in allocated
  BY <1>1, <1>4
<1>6. \A d \in Cpus : \A e : ~ InHandOf(d, e)'
  BY <1>2, <1>3 DEF InHandOf, InLoop
<1>7. \A e : ~ Ran(e)'
  BY <1>2, <1>3 DEF Ran, InLoop
<1>8. x \notin Linked /\ \A e \in Infos : \A d \in Cpus : InHandOf(d, e) => e = x
  BY <1>0, <1>3, <1>4 DEF Linked, InHandOf, InLoop
<1>9. Linked' = Linked
  BY <1>5, <1>6, <1>8 DEF Linked
<1>10. \A e \in Linked : e \in Infos /\ e # x
  BY <1>8 DEF Linked
<1>11. Numbers'
  <2>1. \A e \in Infos : id'[e] <= count' /\ (id'[e] > 0 => e \in allocated')
    BY <1>1, <1>5 DEF Sound, Numbers
  <2>2. \A e, f \in Infos : id'[e] = id'[f] /\ id'[e] > 0 => e = f
    BY <1>5 DEF Sound, Numbers
  <2>3. \A d \in Cpus : ~ InHandOf(d, dtor[d])'
    BY <1>2, <1>3 DEF InHandOf, InLoop
  <2> QED
    BY <2>1, <2>2, <2>3 DEF Numbers
<1>12. Fresh'
  <2>1. \A d \in Cpus : apc[d] # "idle" => new_info[d] # x /\ new_info[d] \in Infos
    BY <1>4 DEF Sound, Fresh
  <2> QED
    BY <1>1, <1>5, <2>1 DEF Sound, Fresh
<1>13. Chain'
  BY <1>1, <1>5, <1>9, <1>10, ChainKept DEF Sound
<1>14. Position'
  BY <1>1, <1>2, <1>3, <1>9 DEF Sound, Position, InLoop
<1>15. Passed'
  <2>1. ASSUME NEW e \in Linked, pdtor[c] # NoInfo, id'[e] >= id'[pdtor[c]], id'[e] <= since[c]
        PROVE  ~ Matches(c, e)
    <3>1. pdtor[c] \in Linked
      BY <1>1, <2>1 DEF Sound, Position, InLoop
    <3>2. id[e] >= id[pdtor[c]] /\ id[e] <= since[c]
      BY <1>5, <1>10, <2>1, <3>1
    <3> QED
      BY <1>1, <2>1, <3>2 DEF Sound, Passed, InLoop
  <2>2. \A e \in Linked : Matches(c, e)' <=> Matches(c, e)
    BY <1>1, <1>5, <1>10 DEF Matches
  <2> QED
    BY <1>1, <1>2, <1>3, <1>9, <2>1, <2>2 DEF Passed, InLoop
<1>16. InReverse'
  BY <1>2, <1>3 DEF InReverse, InLoop
<1>17. Once'
  <2>1. Called' = Called
    BY <1>1 DEF Called
  <2>2. Once
    BY DEF Sound
  <2>3. \A e : Ran(e) => e = x
    BY <1>0, <1>3 DEF Ran, InLoop
  <2>4. \A n \in 1 .. count : (\E e \in Infos : id[e] = n /\ ~ Ran(e)) <=> \E e \in Infos : id'[e] = n
    <3> SUFFICES ASSUME NEW n \in 1 .. count
                 PROVE  (\E e \in Infos : id[e] = n /\ ~ Ran(e)) <=> \E e \in Infos : id'[e] = n
      OBVIOUS
    <3>1. n # 0
      OBVIOUS
    <3> QED
      BY <1>4, <1>5, <2>3, <3>1
  <2>5. \A n \in 1 .. count' : n \notin Called' <=> \E e \in Infos : id'[e] = n /\ ~ Ran(e)'
    BY <1>1, <1>7, <2>1, <2>2, <2>4 DEF Once
  <2>6. /\ Called' \subseteq 1 .. count'
        /\ \A k, l \in DOMAIN ran' : ran'[k] = ran'[l] => k = l
    BY <1>1, <2>1, <2>2 DEF Once
  <2> QED
    BY <1>7, <2>5, <2>6 DEF Once
<1> QED
  BY <1>11, <1>12, <1>13, <1>14, <1>15, <1>16, <1>17 DEF Sound

(* The constructors and the steps that change nothing. *)
LEMMA OtherSound ==
  ASSUME Sound,
         \/ CallConstructor
         \/ \E error \in {-1, 0, 1} : ConstructorReturns(error)
         \/ UNCHANGED vars
  PROVE  Sound'
<1>1. UNCHANGED <<list, finalize, atexit, ran>>
  BY DEF CallConstructor, ConstructorReturns, vars
<1>2. /\ UNCHANGED <<id, global_dtors, next, dso_of, allocated, count, ran, apc, new_info>>
      /\ UNCHANGED <<pc, pdtor, dtor, dso, since>>
  BY <1>1 DEF list, finalize, atexit
<1>3. \A d \in Cpus : \A e : InHandOf(d, e)' <=> InHandOf(d, e)
  BY <1>2 DEF InHandOf
<1>4. \A e : Ran(e)' <=> Ran(e)
  BY <1>2 DEF Ran
<1>5. Linked' = Linked /\ Numbers' /\ Fresh' /\ Chain' /\ Once'
  BY <1>2, <1>3, <1>4, ListQuiet
<1>6. Position' /\ Passed' /\ InReverse'
  BY <1>2, <1>5 DEF Sound, Position, Passed, InReverse, InLoop, Matches
<1> QED
  BY <1>5, <1>6 DEF Sound

LEMMA NextLInv == IInv /\ LInv /\ [Next]_vars => LInv'
<1> SUFFICES ASSUME IInv, LInv, [Next]_vars, ~ raced' PROVE Sound'
  BY DEF LInv
<1>1. CASE raced
  BY <1>1 DEF Next, Damaged, vars
<1>2. CASE ~ raced
  <2>1. Sound
    BY <1>2 DEF LInv
  <2>2. CASE \E c \in Cpus : Step(c) \/ Call(c)
    <3>1. PICK c \in Cpus : Step(c) \/ Call(c)
      BY <2>2
    <3>2. CASE \E d \in Dsos : FillInfo(c, d)
      BY <2>1, <3>2, FillSound
    <3>3. CASE Step(c)
      BY <2>1, <3>2, <3>3, LockSound, FindSound, KeepSound, UnlinkSound, CallSound,
         ReturnSound, UnLockSound, LinkSound DEF Step
    <3>4. CASE Call(c)
      BY <2>1, <3>4, AtexitSound, FinalizeSound DEF Call
    <3> QED
      BY <3>1, <3>3, <3>4
  <2>3. CASE \/ CallConstructor
             \/ \E error \in {-1, 0, 1} : ConstructorReturns(error)
             \/ UNCHANGED vars
    BY <2>1, <2>3, OtherSound
  <2> QED
    BY <1>2, <2>2, <2>3 DEF Next, Rest, Damaged
<1> QED
  BY <1>1, <1>2

LEMMA Invariance == Spec => [](IInv /\ LInv)
<1>1. Init => LInv
  BY InitSound DEF LInv
<1> QED
  BY <1>1, InitIInv, NextIInv, NextLInv, PTL DEF Spec

-----------------------------------------------------------------------------
(***************************************************************************)
(* Following the list: what the recursive function Walk yields, by         *)
(* induction over sets of numbers.  Its numbers decrease, so it ends, and  *)
(* it leaves no linked entry out.                                          *)
(***************************************************************************)
Steps == Cardinality(Infos)

LEMMA StepsNat == Steps \in Nat
BY RuntimeAssumption, FS_CardinalityType DEF Steps

(* The equation that defines it. *)
Follows(w) == w = [k \in 0 .. Cardinality(Infos) |->
                     IF k = 0 THEN global_dtors
                     ELSE IF w[k - 1] = NoInfo THEN NoInfo ELSE next[w[k - 1]]]

LEMMA WalkFollows ==
  ASSUME TypeOK
  PROVE  /\ DOMAIN Walk = 0 .. Steps
         /\ Walk[0] = global_dtors
         /\ \A k \in 1 .. Steps : Walk[k] = IF Walk[k - 1] = NoInfo THEN NoInfo ELSE next[Walk[k - 1]]
<1> DEFINE Pointers == Infos \cup {NoInfo}
           ptr == [e \in Pointers |-> IF e = NoInfo THEN NoInfo ELSE next[e]]
<1>1. PICK w : Iteration(ptr, global_dtors, Steps, w)
  BY StepsNat, IterationExists
<1>2. w = [k \in 0 .. Steps |-> IF k = 0 THEN global_dtors ELSE ptr[w[k - 1]]]
  BY <1>1 DEF Iteration
<1>3. global_dtors \in Pointers /\ \A e \in Pointers : ptr[e] \in Pointers
  BY DEF TypeOK
<1>4. \A e \in Pointers : ptr[e] = IF e = NoInfo THEN NoInfo ELSE next[e]
  OBVIOUS
<1> HIDE DEF Pointers, ptr
<1>5. \A k \in 0 .. Steps : w[k] \in Pointers
  <2> DEFINE P == {k \in 0 .. Steps : w[k] \in Pointers}
  <2>1. 0 \in P
    BY <1>2, <1>3, StepsNat
  <2>2. ASSUME NEW k \in 0 .. Steps - 1, k \in P PROVE k + 1 \in P
    <3>0. k + 1 \in 0 .. Steps /\ k + 1 # 0 /\ (k + 1) - 1 = k
      BY StepsNat
    <3>1. w[k + 1] = ptr[w[k]]
      <4> HIDE DEF Steps
      <4>1. w[k + 1] = ptr[w[(k + 1) - 1]]
        BY <1>2, <3>0
      <4> QED
        BY <3>0, <4>1
    <3> QED
      BY <1>3, <2>2, <3>1, StepsNat
  <2> HIDE DEF P
  <2>3. 0 .. Steps \subseteq P
    BY <2>1, <2>2, StepsNat, UpToInduction
  <2> QED
    BY <2>3 DEF P
<1>6. ASSUME NEW k \in 0 .. Steps, k # 0
      PROVE  ptr[w[k - 1]] = IF w[k - 1] = NoInfo THEN NoInfo ELSE next[w[k - 1]]
  <2>1. k - 1 \in 0 .. Steps
    BY <1>6, StepsNat
  <2> QED
    BY <1>4, <1>5, <2>1
<1>7. Follows(w)
  BY <1>2, <1>6 DEF Follows, Steps
<1>8. Walk = CHOOSE v : Follows(v)
  BY DEF Walk, Follows
<1>9. Follows(Walk)
  BY <1>7, <1>8
<1>10. Walk = [k \in 0 .. Steps |-> IF k = 0 THEN global_dtors
                                   ELSE IF Walk[k - 1] = NoInfo THEN NoInfo ELSE next[Walk[k - 1]]]
  BY <1>9 DEF Follows, Steps
<1> HIDE DEF Steps
<1> QED
  BY <1>10, StepsNat

(* One step along the list: to a linked entry with a smaller number, or to *)
(* the end.                                                                *)
LEMMA WalkStep ==
  ASSUME TypeOK, Sound
  PROVE  /\ \A k \in 0 .. Steps : Walk[k] \in Linked \cup {NoInfo}
         /\ \A k \in 1 .. Steps : Walk[k] # NoInfo =>
              /\ Walk[k - 1] \in Linked
              /\ Walk[k] \in Linked
              /\ id[Walk[k]] < id[Walk[k - 1]]
<1>1. /\ Newest(global_dtors, Linked)
      /\ \A e \in Linked : Newest(next[e], Below(e))
  BY DEF Sound, Chain
<1>2. \A e \in Linked : next[e] \in Below(e) \cup {NoInfo}
  BY <1>1 DEF Newest
<1>3. global_dtors \in Linked \cup {NoInfo}
  BY <1>1 DEF Newest
<1>4. NoInfo \notin Linked /\ \A e \in Linked : Below(e) \subseteq Linked
  BY RuntimeAssumption DEF Linked, Below
<1>5. /\ Walk[0] = global_dtors
      /\ \A k \in 1 .. Steps : Walk[k] = IF Walk[k - 1] = NoInfo THEN NoInfo ELSE next[Walk[k - 1]]
  BY WalkFollows
<1> DEFINE P == {k \in 0 .. Steps : Walk[k] \in Linked \cup {NoInfo}}
<1>6. 0 \in P
  BY <1>3, <1>5, StepsNat
<1>7. ASSUME NEW k \in 0 .. Steps - 1, k \in P PROVE k + 1 \in P
  <2>1. k + 1 \in 1 .. Steps /\ (k + 1) - 1 = k
    BY StepsNat
  <2>2. Walk[k + 1] = IF Walk[k] = NoInfo THEN NoInfo ELSE next[Walk[k]]
    BY <1>5, <2>1
  <2> QED
    BY <1>2, <1>4, <1>7, <2>1, <2>2, StepsNat
<1> HIDE DEF P
<1>8. 0 .. Steps \subseteq P
  BY <1>6, <1>7, StepsNat, UpToInduction
<1>9. \A k \in 0 .. Steps : Walk[k] \in Linked \cup {NoInfo}
  BY <1>8 DEF P
<1>10. ASSUME NEW k \in 1 .. Steps, Walk[k] # NoInfo
       PROVE  /\ Walk[k - 1] \in Linked
              /\ Walk[k] \in Linked
              /\ id[Walk[k]] < id[Walk[k - 1]]
  <2>1. k - 1 \in 0 .. Steps /\ k \in 0 .. Steps
    BY StepsNat
  <2>2. Walk[k - 1] # NoInfo /\ Walk[k] = next[Walk[k - 1]]
    BY <1>5, <1>10
  <2>3. Walk[k - 1] \in Linked
    BY <1>9, <2>1, <2>2
  <2>4. Walk[k] \in Below(Walk[k - 1])
    BY <1>2, <1>10, <2>2, <2>3
  <2> QED
    BY <2>3, <2>4 DEF Below
<1> QED
  BY <1>9, <1>10

LEMMA WalkEnds == ASSUME TypeOK, Sound PROVE Walk[Steps] = NoInfo
<1> SUFFICES ASSUME Walk[Steps] # NoInfo PROVE FALSE
  OBVIOUS
<1> DEFINE D == {k \in 0 .. Steps : Walk[k] # NoInfo}
<1>1. Steps \in D
  BY StepsNat
<1>2. ASSUME NEW k \in 1 .. Steps, k \in D PROVE k - 1 \in D
  <2>1. Walk[k - 1] \in Linked /\ k - 1 \in 0 .. Steps
    BY <1>2, WalkStep, StepsNat
  <2> QED
    BY <2>1, RuntimeAssumption DEF Linked
<1> HIDE DEF D
<1>3. 0 .. Steps \subseteq D
  BY <1>1, <1>2, StepsNat, DownInduction
<1>4. \A k \in 0 .. Steps : Walk[k] \in Linked
  BY <1>3, WalkStep DEF D
<1>5. \A k \in 0 .. Steps : Walk[k] \in Infos /\ id[Walk[k]] \in Nat
  BY <1>4 DEF Linked, TypeOK
<1>6. ASSUME NEW j \in 0 .. Steps, NEW k \in 0 .. Steps, j < k
      PROVE  id[Walk[k]] < id[Walk[j]]
  <2> DEFINE P == {i \in 0 .. Steps : j < i => id[Walk[i]] < id[Walk[j]]}
  <2>1. 0 \in P
    BY StepsNat
  <2>2. ASSUME NEW i \in 0 .. Steps - 1, i \in P PROVE i + 1 \in P
    <3>1. i + 1 \in 1 .. Steps /\ (i + 1) - 1 = i /\ i \in 0 .. Steps /\ i + 1 \in 0 .. Steps
      BY StepsNat
    <3>2. Walk[i + 1] # NoInfo
      BY <1>3, <3>1 DEF D
    <3>3. id[Walk[i + 1]] < id[Walk[i]]
      BY <3>1, <3>2, WalkStep
    <3>4. j < i + 1 => j = i \/ j < i
      BY <3>1, StepsNat
    <3>5. j < i => id[Walk[i]] < id[Walk[j]]
      BY <2>2
    <3>6. /\ id[Walk[i]] \in Nat /\ id[Walk[j]] \in Nat /\ id[Walk[i + 1]] \in Nat
      BY <1>5, <3>1
    <3>7. j < i + 1 => id[Walk[i + 1]] < id[Walk[j]]
      BY <3>3, <3>4, <3>5, <3>6
    <3> QED
      BY <3>1, <3>7
  <2> HIDE DEF P
  <2>3. 0 .. Steps \subseteq P
    BY <2>1, <2>2, StepsNat, UpToInduction
  <2> QED
    BY <1>6, <2>3 DEF P
<1> DEFINE w == [k \in 0 .. Steps |-> Walk[k]]
<1>7. w \in [0 .. Steps -> Infos] /\ \A k \in 0 .. Steps : w[k] = Walk[k]
  BY <1>5
<1>8. IsFiniteSet(0 .. Steps) /\ Cardinality(0 .. Steps) = Steps + 1
  BY FS_Interval, StepsNat
<1>9. IsFiniteSet(Infos) /\ Cardinality(Infos) < Cardinality(0 .. Steps)
  BY <1>8, StepsNat, RuntimeAssumption DEF Steps
<1> HIDE DEF w, Steps
<1>10. \E j, k \in 0 .. Steps : j # k /\ w[j] = w[k]
  <2>1. PICK S : S = 0 .. Steps
    OBVIOUS
  <2>2. w \in [S -> Infos] /\ IsFiniteSet(S) /\ Cardinality(Infos) < Cardinality(S)
    BY <1>7, <1>8, <1>9, <2>1
  <2>3. IsFiniteSet(Infos)
    BY <1>9
  <2>4. \E x, y \in S : x # y /\ w[x] = w[y]
    BY <2>2, <2>3, FS_PigeonHole
  <2> QED
    BY <2>1, <2>4
<1>11. PICK j, k \in 0 .. Steps : j # k /\ w[j] = w[k]
  BY <1>10
<1>12. j < k \/ k < j
  BY <1>11, StepsNat
<1>13. id[Walk[k]] < id[Walk[j]] \/ id[Walk[j]] < id[Walk[k]]
  BY <1>6, <1>12
<1> QED
  BY <1>5, <1>7, <1>11, <1>13

(* The entries listed are those linked. *)
LEMMA ListedLinked == ASSUME TypeOK, Sound PROVE Listed = Linked
<1>1. DOMAIN Walk = 0 .. Steps
  BY WalkFollows
<1>2. Listed \subseteq Linked
  BY <1>1, WalkStep DEF Listed
<1>3. ASSUME NEW e \in Linked, e \notin Listed PROVE FALSE
  <2>1. \A k \in 0 .. Steps : Walk[k] # e
    BY <1>1, <1>3, RuntimeAssumption DEF Listed, Linked
  <2>2. /\ Newest(global_dtors, Linked)
        /\ \A f \in Linked : Newest(next[f], Below(f))
    BY DEF Sound, Chain
  <2>3. \A f \in Linked : id[f] \in Nat /\ (id[f] = id[e] => f = e)
    BY DEF Sound, Numbers, Linked, TypeOK
  <2> DEFINE P == {k \in 0 .. Steps : Walk[k] \in Linked /\ id[e] < id[Walk[k]]}
  <2>4. 0 \in P
    <3>1. Walk[0] \in Linked /\ id[e] <= id[Walk[0]]
      BY <2>2, WalkFollows DEF Newest
    <3> QED
      BY <2>1, <2>3, <3>1, StepsNat
  <2>5. ASSUME NEW k \in 0 .. Steps - 1, k \in P PROVE k + 1 \in P
    <3>1. k + 1 \in 1 .. Steps /\ (k + 1) - 1 = k /\ k + 1 \in 0 .. Steps
      BY StepsNat
    <3>2. Walk[k] \in Linked /\ Walk[k] # NoInfo /\ e \in Below(Walk[k])
      BY <2>5, RuntimeAssumption DEF Below, Linked
    <3>3. Walk[k + 1] = next[Walk[k]]
      BY <3>1, <3>2, WalkFollows
    <3>4. Walk[k + 1] \in Below(Walk[k]) /\ id[e] <= id[Walk[k + 1]]
      BY <2>2, <3>2, <3>3 DEF Newest
    <3>5. Walk[k + 1] \in Linked
      BY <3>4 DEF Below
    <3>6. id[e] < id[Walk[k + 1]]
      BY <2>1, <2>3, <3>1, <3>4, <3>5
    <3> QED
      BY <3>1, <3>5, <3>6
  <2> HIDE DEF P
  <2>6. 0 .. Steps \subseteq P
    BY <2>4, <2>5, StepsNat, UpToInduction
  <2>7. Walk[Steps] \in Linked
    BY <2>6, StepsNat DEF P
  <2> QED
    BY <2>7, WalkEnds, RuntimeAssumption DEF Linked
<1> QED
  BY <1>2, <1>3

-----------------------------------------------------------------------------
(***************************************************************************)
(* The properties.                                                         *)
(***************************************************************************)
LEMMA SoundLists == ASSUME IInv, LInv PROVE ListSound
<1> SUFFICES ASSUME ~ raced PROVE ListSound
  BY DEF ListSound
<1>1. TypeOK /\ Sound
  BY DEF IInv, LInv
<1>2. Walk[Cardinality(Infos)] = NoInfo
  BY <1>1, WalkEnds DEF Steps
<1>3. Listed \subseteq allocated \ {new_info[c] : c \in Cpus}
  <2>1. \A e \in Linked : e \in allocated /\ e # NoInfo /\ id[e] > 0
    BY <1>1, RuntimeAssumption DEF Sound, Numbers, Linked
  <2>2. \A c \in Cpus : new_info[c] = NoInfo \/ id[new_info[c]] = 0
    BY <1>1 DEF Sound, Fresh
  <2> QED
    BY <1>1, <2>1, <2>2, ListedLinked
<1>4. \A k \in DOMAIN Walk \ {0} : Walk[k] # NoInfo => id[Walk[k]] < id[Walk[k - 1]]
  <2>1. \A k \in DOMAIN Walk \ {0} : k \in 1 .. Steps
    BY <1>1, WalkFollows, StepsNat
  <2> QED
    BY <1>1, <2>1, WalkStep
<1> QED
  BY <1>2, <1>3, <1>4 DEF ListSound

(* Unless it was written after a stale read, the list ends, it leads to    *)
(* entries that are linked and not deleted, and the newest come first: for *)
(* any number of CPUs and entries, whatever the destructors register.      *)
THEOREM ListStaysSound == Spec => []ListSound
BY Invariance, SoundLists, PTL

LEMMA SoundOnce == ASSUME IInv, LInv PROVE EachCalledOnce
<1> SUFFICES ASSUME ~ raced PROVE EachCalledOnce
  BY DEF EachCalledOnce
<1>1. TypeOK /\ Sound /\ LocalsOK /\ Exclusion
  BY DEF IInv, LInv
<1> DEFINE Waiting == {id[e] : e \in Listed \cup InHand}
<1>2. Listed = Linked
  BY <1>1, ListedLinked
<1>3. ASSUME NEW e \in Linked \cup InHand
      PROVE  e \in Infos /\ id[e] \in 1 .. count /\ ~ Ran(e)
  <2>1. CASE e \in Linked
    BY <1>1, <2>1 DEF TypeOK, Sound, Numbers, Linked, InHandOf, Ran
  <2>2. CASE e \in InHand
    <3>1. PICK c \in Cpus : pc[c] = "call" /\ dtor[c] = e
      BY <2>2 DEF InHand
    <3>2. e \in Infos /\ id[e] > 0
      BY <1>1, <3>1 DEF LocalsOK, Sound, Numbers, InHandOf
    <3>3. ~ Ran(e)
      BY <1>1, <3>1 DEF Exclusion, InLoop, Ran
    <3> QED
      BY <1>1, <3>2, <3>3 DEF TypeOK, Sound, Numbers
  <2> QED
    BY <1>3, <2>1, <2>2
<1>4. ASSUME NEW e \in Infos, id[e] > 0, ~ Ran(e) PROVE e \in Linked \cup InHand
  <2>1. CASE \E c \in Cpus : InHandOf(c, e)
    BY <1>4, <2>1 DEF InHandOf, Ran, InHand
  <2>2. CASE \A c \in Cpus : ~ InHandOf(c, e)
    BY <1>4, <2>2 DEF Linked
  <2> QED
    BY <2>1, <2>2
<1>5. Once
  BY <1>1 DEF Sound
<1>6. Waiting \cup Called = 1 .. count
  <2>1. ASSUME NEW n \in 1 .. count, n \notin Called PROVE n \in Waiting
    <3>1. PICK e \in Infos : id[e] = n /\ ~ Ran(e)
      BY <1>5, <2>1 DEF Once
    <3>2. e \in Linked \cup InHand
      BY <1>4, <3>1
    <3> QED
      BY <1>2, <3>1, <3>2
  <2>2. Waiting \subseteq 1 .. count
    BY <1>2, <1>3
  <2>3. Called \subseteq 1 .. count
    BY <1>5 DEF Once
  <2> HIDE DEF Waiting
  <2> QED
    BY <2>1, <2>2, <2>3
<1>7. Waiting \cap Called = {}
  <2>1. ASSUME NEW e \in Linked \cup InHand PROVE id[e] \notin Called
    BY <1>3, <1>5 DEF Once
  <2> QED
    BY <1>2, <2>1
<1>8. Cardinality(Called) = Len(ran)
  <2>1. ran \in [1 .. Len(ran) -> Called] /\ Len(ran) \in Nat
    BY <1>1 DEF TypeOK, Called
  <2>2. \A k, l \in 1 .. Len(ran) : ran[k] = ran[l] => k = l
    BY <1>1, <1>5 DEF TypeOK, Once
  <2>3. \A n \in Called : \E k \in 1 .. Len(ran) : ran[k] = n
    BY <1>1 DEF TypeOK, Called
  <2>4. ran \in Injection(1 .. Len(ran), Called) /\ ran \in Surjection(1 .. Len(ran), Called)
    BY <2>1, <2>2, <2>3 DEF Injection, Surjection, IsInjective
  <2>5. PICK n \in Nat : n = Len(ran)
    BY <2>1
  <2>6. IsFiniteSet(1 .. n) /\ Cardinality(1 .. n) = n
    <3>1. IsFiniteSet(1 .. n) /\ Cardinality(1 .. n) = IF 1 > n THEN 0 ELSE n - 1 + 1
      BY FS_Interval
    <3> QED
      BY <3>1
  <2>7. Cardinality(Called) = Cardinality(1 .. n)
    BY <2>4, <2>5, <2>6, FS_Surjection
  <2> QED
    BY <2>5, <2>6, <2>7
<1> HIDE DEF Waiting
<1> QED
  BY <1>6, <1>7, <1>8 DEF EachCalledOnce, Called, Waiting

(* Unless the list was written after a stale read, every destructor        *)
(* registered is on the list, about to be called or was called, and none   *)
(* is called twice, on any number of CPUs.                                 *)
THEOREM CallsEachOnce == Spec => []EachCalledOnce
BY Invariance, SoundOnce, PTL

LEMMA SoundReverse == ASSUME IInv, LInv PROVE CalledInReverse
<1> SUFFICES ASSUME ~ raced, NEW c \in Cpus
             PROVE  /\ pc[c] = "call" => \A e \in ToCall(c) : id[e] < id[dtor[c]]
                    /\ pc[c] = "loop" /\ At(c) = NoInfo => ToCall(c) = {}
  BY DEF CalledInReverse
<1>1. TypeOK /\ Sound
  BY DEF IInv, LInv
<1>2. \A e : e \in ToCall(c) <=> e \in Linked /\ Matches(c, e) /\ id[e] <= since[c]
  BY <1>1, ListedLinked DEF ToCall
<1>3. pc[c] = "call" => \A e \in ToCall(c) : id[e] < id[dtor[c]]
  BY <1>1, <1>2 DEF Sound, InReverse
<1>4. ASSUME pc[c] = "loop", At(c) = NoInfo, NEW e \in ToCall(c) PROVE FALSE
  <2>1. Ahead(c) = {} /\ InLoop(c)
    BY <1>1, <1>4, AtNewest DEF InLoop
  <2>2. pdtor[c] \in Linked /\ pdtor[c] # NoInfo
    BY <1>1, <1>2, <1>4, <2>1 DEF Sound, Position, Ahead
  <2>3. id[e] >= id[pdtor[c]]
    <3>1. e \in Linked /\ e \notin Below(pdtor[c])
      BY <1>2, <1>4, <2>1, <2>2 DEF Ahead
    <3>2. id[e] \in Nat /\ id[pdtor[c]] \in Nat
      BY <1>1, <2>2, <3>1 DEF TypeOK, Linked
    <3> QED
      BY <3>1, <3>2 DEF Below
  <2> QED
    BY <1>1, <1>2, <1>4, <2>1, <2>2, <2>3 DEF Sound, Passed
<1> QED
  BY <1>3, <1>4

(* Unless the list was written after a stale read, destructors are called  *)
(* in the reverse order of registration, and when __cxa_finalize is about  *)
(* to return none is left of those it was called for.                      *)
THEOREM CallsInReverse == Spec => []CalledInReverse
BY Invariance, SoundReverse, PTL
=============================================================================
