-------------------------------- MODULE CxxAbi --------------------------------
(***************************************************************************)
(* The C++ runtime: the list of destructors of                             *)
(* src/kernel/cxx_base_abi.cpp, to which __cxa_atexit adds without a lock  *)
(* and from which __cxa_finalize takes with one, and the table of global   *)
(* constructors that main walks (src/kernel/main.cpp).                     *)
(*                                                                         *)
(* A destructor is called with the lock held and may itself register       *)
(* destructors or call __cxa_finalize.  A write of the list that is        *)
(* based on a stale read makes raced true; the model stops there.          *)
(***************************************************************************)
EXTENDS Integers, Sequences, FiniteSets

CONSTANTS
  Cpus,
  BootCpu,      \* the one that runs main
  Infos,        \* the addresses at which the heap has room for a dtor_info
  NoInfo,       \* nullptr
  Dsos,         \* the handles that entries are registered with
  AnyDso,       \* nullptr, which stands for all of them
  InitArray,    \* the table of constructors: whether each entry is not null
  MaxInfo       \* bound: how many destructors are registered

ASSUME RuntimeAssumption ==
  /\ BootCpu \in Cpus
  /\ IsFiniteSet(Infos)
  /\ NoInfo \notin Infos
  /\ AnyDso \notin Dsos
  /\ InitArray \in Seq(BOOLEAN)
  /\ MaxInfo \in Nat

VARIABLES
  global_dtors,     \* the newest entry, NoInfo for nullptr
  next, dso_of,     \* the fields of the entries
  allocated,        \* the entries that new has returned and delete not
  dtor_exit_lock,
  pc,               \* where each CPU is in __cxa_finalize
  pdtor,            \* its local: the entry whose next it is at, NoInfo for &global_dtors
  dtor,             \* its local
  dso,              \* its argument, AnyDso for nullptr
  apc,              \* where each CPU is in __cxa_atexit
  new_info,         \* its local
  main,             \* where main is
  ctor,             \* its local i
  id, count,        \* history: the place of each entry in the order of registration
  ran,              \* history: the registrations whose destructor was called
  since,            \* history: count when the CPU entered the loop of __cxa_finalize
  raced             \* history: the list was written after a stale read

list == <<global_dtors, next, dso_of, allocated, dtor_exit_lock>>
finalize == <<pc, pdtor, dtor, dso, since>>
atexit == <<apc, new_info, id, count>>
kernel == <<main, ctor>>
vars == <<list, finalize, atexit, kernel, ran, raced>>

Init ==
  /\ global_dtors = NoInfo
  /\ next = [e \in Infos |-> NoInfo]
  /\ dso_of = [e \in Infos |-> AnyDso]
  /\ allocated = {}
  /\ dtor_exit_lock = 0
  /\ pc = [c \in Cpus |-> "idle"]
  /\ pdtor = [c \in Cpus |-> NoInfo]
  /\ dtor = [c \in Cpus |-> NoInfo]
  /\ dso = [c \in Cpus |-> AnyDso]
  /\ since = [c \in Cpus |-> 0]
  /\ apc = [c \in Cpus |-> "idle"]
  /\ new_info = [c \in Cpus |-> NoInfo]
  /\ id = [e \in Infos |-> 0]
  /\ count = 0
  /\ main = "ctors"
  /\ ctor = 1
  /\ ran = <<>>
  /\ raced = FALSE

Goto(c, from, to) == pc[c] = from /\ pc' = [pc EXCEPT ![c] = to]

(* Code that may call the runtime: what a CPU runs once main has set up    *)
(* the kernel, a global constructor, a destructor.                         *)
Calls(c) ==
  \/ pc[c] = "idle" /\ main = "idle"
  \/ pc[c] = "idle" /\ main = "in_ctor" /\ c = BootCpu
  \/ pc[c] = "in_dtor"

(* __cxa_atexit: the entry comes from the heap; with none it returns       *)
(* -ENOMEM and nothing changes.                                            *)
Atexit(c) ==
  /\ apc[c] = "idle"
  /\ Calls(c)
  /\ count < MaxInfo
  /\ \E e \in Infos \ allocated :
       /\ allocated' = allocated \union {e}
       /\ new_info' = [new_info EXCEPT ![c] = e]
  /\ apc' = [apc EXCEPT ![c] = "read"]
  /\ UNCHANGED <<global_dtors, next, dso_of, dtor_exit_lock, finalize, id, count, kernel, ran, raced>>

(* The fields of the entry: its next is the head of the list as it is now. *)
FillInfo(c, d) ==
  /\ apc[c] = "read"
  /\ next' = [next EXCEPT ![new_info[c]] = global_dtors]
  /\ dso_of' = [dso_of EXCEPT ![new_info[c]] = d]
  /\ apc' = [apc EXCEPT ![c] = "write"]
  /\ UNCHANGED <<global_dtors, allocated, dtor_exit_lock, finalize, new_info, id, count, kernel, ran, raced>>

(* Mutant of LinkInfo: the head is only set when the list is empty. *)
LinkInfoFirst(c) ==
  /\ apc[c] = "write"
  /\ global_dtors' = IF global_dtors = NoInfo THEN new_info[c] ELSE global_dtors
  /\ raced' = (global_dtors # next[new_info[c]])
  /\ count' = count + 1
  /\ id' = [id EXCEPT ![new_info[c]] = count + 1]
  /\ apc' = [apc EXCEPT ![c] = "idle"]
  /\ new_info' = [new_info EXCEPT ![c] = NoInfo]
  /\ UNCHANGED <<next, dso_of, allocated, dtor_exit_lock, finalize, kernel, ran>>

(* It becomes the head, whatever the head is by now.                       *)
LinkInfo(c) ==
  /\ apc[c] = "write"
  /\ global_dtors' = new_info[c]
  /\ raced' = (global_dtors # next[new_info[c]])
  /\ count' = count + 1
  /\ id' = [id EXCEPT ![new_info[c]] = count + 1]
  /\ apc' = [apc EXCEPT ![c] = "idle"]
  /\ new_info' = [new_info EXCEPT ![c] = NoInfo]
  /\ UNCHANGED <<next, dso_of, allocated, dtor_exit_lock, finalize, kernel, ran>>

(* __cxa_finalize: pdtor = &global_dtors.                                  *)
Finalize(c, d) ==
  /\ apc[c] = "idle"
  /\ Calls(c)
  /\ Goto(c, "idle", "lock")
  /\ pdtor' = [pdtor EXCEPT ![c] = NoInfo]
  /\ dso' = [dso EXCEPT ![c] = d]
  /\ UNCHANGED <<list, dtor, since, atexit, kernel, ran, raced>>

(* A destructor that calls __cxa_finalize waits for its own CPU.           *)
FinalizeInDtor(c) ==
  /\ apc[c] = "idle"
  /\ Goto(c, "in_dtor", "stuck")
  /\ UNCHANGED <<list, pdtor, dtor, dso, since, atexit, kernel, ran, raced>>

(* Mutant of Lock: it is not looked whether the lock is free. *)
LockAlways(c) ==
  /\ dtor_exit_lock' = 1
  /\ Goto(c, "lock", "loop")
  /\ since' = [since EXCEPT ![c] = count]
  /\ UNCHANGED <<global_dtors, next, dso_of, allocated, pdtor, dtor, dso, atexit, kernel, ran, raced>>

(* Mutant of Lock: the lock is counted up. *)
LockCounted(c) ==
  /\ dtor_exit_lock' = dtor_exit_lock + 1
  /\ Goto(c, "lock", "loop")
  /\ since' = [since EXCEPT ![c] = count]
  /\ UNCHANGED <<global_dtors, next, dso_of, allocated, pdtor, dtor, dso, atexit, kernel, ran, raced>>

Lock(c) ==
  /\ dtor_exit_lock = 0
  /\ dtor_exit_lock' = 1
  /\ Goto(c, "lock", "loop")
  /\ since' = [since EXCEPT ![c] = count]
  /\ UNCHANGED <<global_dtors, next, dso_of, allocated, pdtor, dtor, dso, atexit, kernel, ran, raced>>

(* *pdtor                                                                  *)
At(c) == IF pdtor[c] = NoInfo THEN global_dtors ELSE next[pdtor[c]]

Matches(c, e) == dso[c] = AnyDso \/ dso_of[e] = dso[c]

(* The loop finds an entry to finalize ...                                 *)
FindInfo(c) ==
  /\ At(c) # NoInfo
  /\ Matches(c, At(c))
  /\ Goto(c, "loop", "unlink")
  /\ dtor' = [dtor EXCEPT ![c] = At(c)]
  /\ UNCHANGED <<list, pdtor, dso, since, atexit, kernel, ran, raced>>

(* Mutant of KeepInfo: it goes on behind the next one. *)
KeepInfoTwo(c) ==
  /\ pc[c] = "loop"
  /\ At(c) # NoInfo
  /\ ~Matches(c, At(c))
  /\ pdtor' = [pdtor EXCEPT ![c] = IF next[At(c)] = NoInfo THEN At(c) ELSE next[At(c)]]
  /\ UNCHANGED <<list, pc, dtor, dso, since, atexit, kernel, ran, raced>>

(* Mutant of KeepInfo: it does not go on. *)
KeepInfoHere(c) ==
  /\ pc[c] = "loop"
  /\ At(c) # NoInfo
  /\ ~Matches(c, At(c))
  /\ UNCHANGED vars

(* ... or one to keep, and goes on behind it.                              *)
KeepInfo(c) ==
  /\ pc[c] = "loop"
  /\ At(c) # NoInfo
  /\ ~Matches(c, At(c))
  /\ pdtor' = [pdtor EXCEPT ![c] = At(c)]
  /\ UNCHANGED <<list, pc, dtor, dso, since, atexit, kernel, ran, raced>>

(* Mutant of Unlink: it is forgotten behind an entry that was kept. *)
UnlinkFirst(c) ==
  /\ Goto(c, "unlink", "call")
  /\ raced' = (At(c) # dtor[c])
  /\ global_dtors' = IF pdtor[c] = NoInfo THEN next[dtor[c]] ELSE global_dtors
  /\ UNCHANGED <<next, dso_of, allocated, dtor_exit_lock, pdtor, dtor, dso, since, atexit, kernel, ran>>

(* *pdtor = dtor->next, whatever *pdtor is by now.                         *)
Unlink(c) ==
  /\ Goto(c, "unlink", "call")
  /\ raced' = (At(c) # dtor[c])
  /\ IF pdtor[c] = NoInfo
     THEN global_dtors' = next[dtor[c]] /\ UNCHANGED next
     ELSE next' = [next EXCEPT ![pdtor[c]] = next[dtor[c]]] /\ UNCHANGED global_dtors
  /\ UNCHANGED <<dso_of, allocated, dtor_exit_lock, pdtor, dtor, dso, since, atexit, kernel, ran>>

CallDtor(c) ==
  /\ Goto(c, "call", "in_dtor")
  /\ ran' = Append(ran, id[dtor[c]])
  /\ UNCHANGED <<list, pdtor, dtor, dso, since, atexit, kernel, raced>>

(* Then the entry is deleted; what is left in its memory is not looked at. *)
DtorReturns(c) ==
  /\ apc[c] = "idle"
  /\ Goto(c, "in_dtor", "loop")
  /\ allocated' = allocated \ {dtor[c]}
  /\ next' = [next EXCEPT ![dtor[c]] = NoInfo]
  /\ dso_of' = [dso_of EXCEPT ![dtor[c]] = AnyDso]
  /\ id' = [id EXCEPT ![dtor[c]] = 0]
  /\ dtor' = [dtor EXCEPT ![c] = NoInfo]
  /\ UNCHANGED <<global_dtors, dtor_exit_lock, pdtor, dso, since, apc, new_info, count, kernel, ran, raced>>

(* The end of the list, and the return, which leaves no locals.            *)
UnLock(c) ==
  /\ At(c) = NoInfo
  /\ Goto(c, "loop", "idle")
  /\ dtor_exit_lock' = 0
  /\ pdtor' = [pdtor EXCEPT ![c] = NoInfo]
  /\ dtor' = [dtor EXCEPT ![c] = NoInfo]
  /\ dso' = [dso EXCEPT ![c] = AnyDso]
  /\ since' = [since EXCEPT ![c] = 0]
  /\ UNCHANGED <<global_dtors, next, dso_of, allocated, atexit, kernel, ran, raced>>

(* global_constructor_caller: the loop ends at a null entry or at the end. *)
CallConstructor ==
  /\ main = "ctors"
  /\ IF ctor <= Len(InitArray) /\ InitArray[ctor]
     THEN main' = "in_ctor"
     ELSE main' = "idle"
  /\ UNCHANGED <<list, finalize, atexit, ctor, ran, raced>>

(* A constructor is called as a function that returns an int and is        *)
(* compiled as one that returns nothing: error is anything.  It ends the   *)
(* loop unless it is 0, and main goes on unless it is negative.            *)
ConstructorReturns(error) ==
  /\ main = "in_ctor"
  /\ pc[BootCpu] = "idle"
  /\ apc[BootCpu] = "idle"
  /\ main' = IF error = 0 THEN "ctors" ELSE IF error < 0 THEN "failed" ELSE "idle"
  /\ ctor' = ctor + 1
  /\ UNCHANGED <<list, finalize, atexit, ran, raced>>

(* Nothing has to be called any more, main has halted, or it is stuck.     *)
Rest ==
  /\ main \in {"idle", "failed"} \/ pc[BootCpu] = "stuck"
  /\ \A c \in Cpus : pc[c] \in {"idle", "lock", "stuck"} /\ apc[c] = "idle"
  /\ UNCHANGED vars

(* After a stale write nothing can be said of the list.                    *)
Damaged == raced /\ UNCHANGED vars

(* A step inside __cxa_finalize, __cxa_atexit or a destructor.             *)
Step(c) ==
  \/ Lock(c)
  \/ FindInfo(c)
  \/ KeepInfo(c)
  \/ Unlink(c)
  \/ CallDtor(c)
  \/ DtorReturns(c)
  \/ UnLock(c)
  \/ \E d \in Dsos : FillInfo(c, d)
  \/ LinkInfo(c)

Call(c) ==
  \/ Atexit(c)
  \/ \E d \in Dsos \union {AnyDso} : Finalize(c, d)
  \/ FinalizeInDtor(c)

Next ==
  \/ /\ ~raced
     /\ \/ \E c \in Cpus : Step(c) \/ Call(c)
        \/ CallConstructor
        \/ \E error \in {-1, 0, 1} : ConstructorReturns(error)
        \/ Rest
  \/ Damaged

Spec == Init /\ [][Next]_vars

(* Code that was begun goes on; nobody has to call anything.               *)
FairSpec == Spec /\ \A c \in Cpus : WF_vars(~raced /\ Step(c))
-----------------------------------------------------------------------------
(* Types.                                                                  *)
TypeOK ==
  /\ global_dtors \in Infos \union {NoInfo}
  /\ next \in [Infos -> Infos \union {NoInfo}]
  /\ dso_of \in [Infos -> Dsos \union {AnyDso}]
  /\ allocated \subseteq Infos
  /\ dtor_exit_lock \in {0, 1}
  /\ pc \in [Cpus -> {"idle", "lock", "loop", "unlink", "call", "in_dtor", "stuck"}]
  /\ pdtor \in [Cpus -> Infos \union {NoInfo}]
  /\ dtor \in [Cpus -> Infos \union {NoInfo}]
  /\ dso \in [Cpus -> Dsos \union {AnyDso}]
  /\ since \in [Cpus -> Nat]
  /\ apc \in [Cpus -> {"idle", "read", "write"}]
  /\ new_info \in [Cpus -> Infos \union {NoInfo}]
  /\ id \in [Infos -> Nat]
  /\ count \in Nat
  /\ main \in {"ctors", "in_ctor", "idle", "failed"}
  /\ ctor \in Nat
  /\ ran \in Seq(Nat)
  /\ raced \in BOOLEAN

InLoop(c) == pc[c] \in {"loop", "unlink", "call", "in_dtor", "stuck"}

(* One CPU at a time goes through the list to finalize it, from Lock to    *)
(* UnLock, the destructors it calls included; the lock is taken exactly    *)
(* while there is one.                                                     *)
Exclusion ==
  /\ \A c, d \in Cpus : InLoop(c) /\ InLoop(d) => c = d
  /\ dtor_exit_lock = 1 <=> \E c \in Cpus : InLoop(c)

(* The entries that are found by following the list, at most as many as    *)
(* there are, then NoInfo.                                                 *)
Walk ==
  LET walk[k \in 0 .. Cardinality(Infos)] ==
        IF k = 0 THEN global_dtors
        ELSE IF walk[k - 1] = NoInfo THEN NoInfo ELSE next[walk[k - 1]]
  IN  walk

Listed == {Walk[k] : k \in DOMAIN Walk} \ {NoInfo}

(* Unless it was written after a stale read, the list ends, it leads to    *)
(* entries that are linked and not deleted, and the newest come first.     *)
ListSound ==
  raced \/
    /\ Walk[Cardinality(Infos)] = NoInfo
    /\ Listed \subseteq allocated \ {new_info[c] : c \in Cpus}
    /\ \A k \in DOMAIN Walk \ {0} : Walk[k] # NoInfo => id[Walk[k]] < id[Walk[k - 1]]

InHand == {dtor[c] : c \in {b \in Cpus : pc[b] = "call"}}

(* Every destructor registered is on the list, about to be called, or was  *)
(* called; it is called once.                                              *)
EachCalledOnce ==
  raced \/
    LET Waiting == {id[e] : e \in Listed \union InHand}
        Called == {ran[k] : k \in DOMAIN ran}
    IN  /\ Waiting \union Called = 1 .. count
        /\ Waiting \intersect Called = {}
        /\ Cardinality(Called) = Len(ran)

(* Those __cxa_finalize still has to call, of what was registered when it  *)
(* began.                                                                  *)
ToCall(c) == {e \in Listed : Matches(c, e) /\ id[e] <= since[c]}

(* Destructors are called in the reverse order of registration, and when   *)
(* __cxa_finalize returns none is left of those it was called for, even if *)
(* destructors have registered others meanwhile.                           *)
CalledInReverse ==
  raced \/
    \A c \in Cpus :
      /\ pc[c] = "call" => \A e \in ToCall(c) : id[e] < id[dtor[c]]
      /\ pc[c] = "loop" /\ At(c) = NoInfo => ToCall(c) = {}

(* __cxa_finalize ends once it has the lock, unless a destructor calls it  *)
(* again.                                                                  *)
FinalizeEnds ==
  \A c \in Cpus : pc[c] = "loop" ~> (pc[c] \in {"idle", "stuck"} \/ raced)
=============================================================================
