----------------------------- MODULE RuntimeProofs -----------------------------
(***************************************************************************)
(* Proofs about the two components of package runtime.  IdentityStore: for *)
(* any number of clients, signatures and seeds, restarts of the process    *)
(* included.  Receipts: for any executions, hashes, arguments and bounds,  *)
(* receipts describe one history (ReceiptsOfOneHistory), a binding         *)
(* identifies trace and version (BindingIdentifiesTrace), and nothing      *)
(* emitted can be denied later (NoFailureAfterCommitment).                 *)
(***************************************************************************)
EXTENDS Runtime, TLAPS

(* A process of the runtime is a store and a set of executions: what is    *)
(* proved of each below holds of the process.                              *)
THEOREM PartsApart == RuntimeSpec => Spec /\ ReceiptSpec
<1>1. RuntimeInit => Init /\ ReceiptInit
  BY DEF RuntimeInit
<1>2. [StoreStep \/ ReceiptStep]_runtimeVars => [Next]_vars /\ [ReceiptNext]_receiptVars
  BY DEF StoreStep, ReceiptStep, runtimeVars
<1> QED
  BY <1>1, <1>2, PTL DEF RuntimeSpec, Spec, ReceiptSpec

(* The inductive invariant: besides the discipline, a call has no answer   *)
(* before its last step inside.                                            *)
IInv ==
  /\ TypeOK
  /\ LockDiscipline
  /\ \A c \in Clients :
       call[c].pc \in {"wait", "locked", "store"} => call[c].answer = Unbound

(* Every binding a client was told is the binding of the map. *)
ToldIsBound ==
  \A c \in Clients : \A b \in told[c] :
    data[b[1]] = b[2] /\ b[1] \in Sigs /\ b[2] \in Seeds

LEMMA NoCallType == NoCall \in Call
  BY StoreConstants DEF NoCall, Call

LEMMA Initial == Init => IInv
<1> SUFFICES ASSUME Init PROVE IInv
  OBVIOUS
<1>1. TypeOK
  BY NoCallType DEF Init, TypeOK
<1>2. \A c \in Clients : call[c].pc = "idle" /\ call[c].answer = Unbound
  BY DEF Init, NoCall
<1>3. LockDiscipline
  BY <1>2, StoreConstants DEF Init, LockDiscipline, Inside
<1> QED
  BY <1>1, <1>2, <1>3 DEF IInv

(* A step of client c at one line of a call, described once.               *)
LEMMA GotoType ==
  ASSUME TypeOK, NEW c \in Clients, NEW pc, NEW answer, Goto(c, pc, answer),
         pc \in {"idle", "wait", "locked", "store", "unlock"},
         answer \in Seeds \cup {Unbound}
  PROVE  /\ call' \in [Clients -> Call]
         /\ call'[c].pc = pc /\ call'[c].answer = answer
         /\ call'[c].sig = call[c].sig /\ call'[c].seed = call[c].seed
         /\ \A d \in Clients : d # c => call'[d] = call[d]
<1>1. call[c] \in Call
  BY DEF TypeOK
<1>2. [pc |-> pc, op |-> call[c].op, sig |-> call[c].sig,
       seed |-> call[c].seed, answer |-> answer] \in Call
  BY <1>1 DEF Call
<1> QED
  BY <1>2 DEF TypeOK, Goto

LEMMA InvokeKeeps ==
  ASSUME IInv, NEW c \in Clients, NEW op \in {"Get", "Insert"},
         NEW sig \in Sigs, NEW seed \in Seeds, Invoke(c, op, sig, seed)
  PROVE  IInv'
<1>1. [pc |-> "wait", op |-> op, sig |-> sig, seed |-> seed,
       answer |-> Unbound] \in Call
  BY DEF Call
<1>2. /\ call' \in [Clients -> Call]
      /\ call'[c].pc = "wait" /\ call'[c].answer = Unbound
      /\ \A d \in Clients : d # c => call'[d] = call[d]
  BY <1>1 DEF IInv, TypeOK, Invoke
<1>3. UNCHANGED <<data, owner, told>> /\ call[c].pc = "idle"
  BY DEF Invoke
<1> QED
  BY <1>2, <1>3 DEF IInv, TypeOK, LockDiscipline, Inside

LEMMA LockKeeps ==
  ASSUME IInv, NEW c \in Clients, Lock(c)
  PROVE  IInv'
<1>1. call[c].answer = Unbound
  BY DEF IInv, Lock
<1>2. /\ call' \in [Clients -> Call]
      /\ call'[c].pc = "locked" /\ call'[c].answer = Unbound
      /\ \A d \in Clients : d # c => call'[d] = call[d]
  BY <1>1, GotoType DEF IInv, Lock
<1>3. UNCHANGED <<data, told>> /\ owner = Free /\ owner' = c
  BY DEF Lock
<1> QED
  BY <1>2, <1>3, StoreConstants DEF IInv, TypeOK, LockDiscipline, Inside

LEMMA WorkKeeps ==
  ASSUME IInv, NEW c \in Clients, Working(c)
  PROVE  IInv'
<1>0. TypeOK /\ call[c] \in Call /\ data[call[c].sig] \in Seeds \cup {Unbound}
  BY DEF IInv, TypeOK, Call
<1>1. ASSUME Read(c) PROVE IInv'
  <2>1. /\ call' \in [Clients -> Call]
        /\ call'[c].pc = "unlock" /\ call'[c].answer = data[call[c].sig]
        /\ call'[c].sig = call[c].sig
        /\ \A d \in Clients : d # c => call'[d] = call[d]
    BY <1>0, <1>1, GotoType DEF Read
  <2>2. UNCHANGED <<data, owner, told>> /\ call[c].pc = "locked"
    BY <1>1 DEF Read
  <2> QED
    BY <2>1, <2>2 DEF IInv, TypeOK, LockDiscipline, Inside
<1>2. ASSUME Refuse(c) PROVE IInv'
  <2>1. call[c].answer = Unbound
    BY <1>2 DEF IInv, Refuse
  <2>2. /\ call' \in [Clients -> Call]
        /\ call'[c].pc = "unlock" /\ call'[c].answer = Unbound
        /\ \A d \in Clients : d # c => call'[d] = call[d]
    BY <1>0, <1>2, <2>1, GotoType DEF Refuse
  <2>3. UNCHANGED <<data, owner, told>> /\ call[c].pc = "locked"
    BY <1>2 DEF Refuse
  <2> QED
    BY <2>2, <2>3 DEF IInv, TypeOK, LockDiscipline, Inside
<1>3. ASSUME Admit(c) PROVE IInv'
  <2>1. call[c].answer = Unbound
    BY <1>3 DEF IInv, Admit
  <2>2. /\ call' \in [Clients -> Call]
        /\ call'[c].pc = "store" /\ call'[c].answer = Unbound
        /\ call'[c].sig = call[c].sig
        /\ \A d \in Clients : d # c => call'[d] = call[d]
    BY <1>0, <1>3, <2>1, GotoType DEF Admit
  <2>3. /\ UNCHANGED <<data, owner, told>> /\ call[c].pc = "locked"
        /\ data[call[c].sig] = Unbound
    BY <1>3 DEF Admit, Exists
  <2> QED
    BY <2>2, <2>3 DEF IInv, TypeOK, LockDiscipline, Inside
<1>4. ASSUME Assign(c) PROVE IInv'
  <2>1. call[c].sig \in Sigs /\ call[c].seed \in Seeds
    BY <1>0 DEF Call
  <2>2. /\ call' \in [Clients -> Call]
        /\ call'[c].pc = "unlock" /\ call'[c].answer = call[c].seed
        /\ call'[c].sig = call[c].sig
        /\ \A d \in Clients : d # c => call'[d] = call[d]
    BY <1>0, <1>4, <2>1, GotoType DEF Assign
  <2>3. /\ UNCHANGED <<owner, told>> /\ call[c].pc = "store"
        /\ data' = [data EXCEPT ![call[c].sig] = call[c].seed]
    BY <1>4 DEF Assign
  <2>4. data' \in [Sigs -> Seeds \cup {Unbound}]
        /\ data'[call[c].sig] = call[c].seed
    BY <1>0, <2>1, <2>3 DEF TypeOK
  <2>5. \A d \in Clients : Inside(d) => d = c
    BY <2>3 DEF IInv, LockDiscipline, Inside
  <2> QED
    BY <2>2, <2>3, <2>4, <2>5 DEF IInv, TypeOK, LockDiscipline, Inside
<1>5. ASSUME Unlock(c) PROVE IInv'
  <2>1. /\ call' \in [Clients -> Call]
        /\ call'[c].pc = "idle"
        /\ \A d \in Clients : d # c => call'[d] = call[d]
    BY <1>0, <1>5, GotoType DEF Unlock, Call
  <2>2. UNCHANGED data /\ owner' = Free /\ call[c].pc = "unlock"
    BY <1>5 DEF Unlock, Release
  <2>3. told' \in [Clients -> SUBSET (Sigs \X Seeds)]
    <3>1. call[c].answer # Unbound =>
            <<call[c].sig, call[c].answer>> \in Sigs \X Seeds
      BY <1>0 DEF Call
    <3> QED
      BY <1>0, <1>5, <3>1 DEF Unlock, TypeOK
  <2>4. owner = c
    BY <2>2 DEF IInv, LockDiscipline, Inside
  <2>5. TypeOK'
    BY <1>0, <2>1, <2>2, <2>3 DEF TypeOK
  <2>6. LockDiscipline'
    BY <2>1, <2>2, <2>4, StoreConstants DEF IInv, LockDiscipline, Inside
  <2> QED
    BY <2>1, <2>2, <2>5, <2>6 DEF IInv
<1> QED
  BY <1>1, <1>2, <1>3, <1>4, <1>5 DEF Working

LEMMA RestartKeeps ==
  ASSUME IInv, Restart
  PROVE  IInv'
<1>1. TypeOK'
  BY NoCallType DEF Restart, TypeOK
<1>2. \A c \in Clients : call'[c].pc = "idle" /\ call'[c].answer = Unbound
  BY DEF Restart, NoCall
<1>3. LockDiscipline'
  BY <1>2, StoreConstants DEF Restart, LockDiscipline, Inside
<1> QED
  BY <1>1, <1>2, <1>3 DEF IInv

LEMMA Inductive == IInv /\ [Next]_vars => IInv'
<1> SUFFICES ASSUME IInv, [Next]_vars PROVE IInv'
  OBVIOUS
<1>1. CASE UNCHANGED vars
  BY <1>1 DEF vars, IInv, TypeOK, LockDiscipline, Inside
<1> QED
  BY <1>1, InvokeKeeps, LockKeeps, WorkKeeps, RestartKeeps DEF Next

(* The discipline of the mutex, for any number of clients and restarts.    *)
THEOREM MutexWorks == Spec => [](TypeOK /\ LockDiscipline)
<1>1. IInv => TypeOK /\ LockDiscipline
  BY DEF IInv
<1> QED
  BY <1>1, Initial, Inductive, PTL DEF Spec

-------------------------------------------------------------------------------
(* Each step is a step of the abstract map or leaves it alone.             *)
LEMMA StepRefines ==
  ASSUME IInv, [Next]_vars
  PROVE  [Abstract!MNext]_<<data, told>>
<1>1. CASE UNCHANGED <<data, told>>
  BY <1>1
<1>2. ASSUME NEW c \in Clients, Assign(c) PROVE Abstract!MNext
  <2>1. call[c].sig \in Sigs /\ call[c].seed \in Seeds
    BY DEF IInv, TypeOK, Call
  <2>2. data[call[c].sig] = Unbound
    BY <1>2 DEF Assign, IInv, LockDiscipline
  <2>3. Abstract!Bind(call[c].sig, call[c].seed)
    BY <1>2, <2>2 DEF Assign, Abstract!Bind
  <2> QED
    BY <2>1, <2>3 DEF Abstract!MNext
<1>3. ASSUME NEW c \in Clients, Unlock(c) PROVE [Abstract!MNext]_<<data, told>>
  <2>1. call[c].sig \in Sigs
    BY DEF IInv, TypeOK, Call
  <2>2. CASE call[c].answer = Unbound
    BY <1>3, <2>2 DEF Unlock, IInv, TypeOK
  <2>3. CASE call[c].answer # Unbound
    <3>1. data[call[c].sig] = call[c].answer
      BY <1>3, <2>3 DEF Unlock, IInv, LockDiscipline
    <3>2. Abstract!Tell(c, call[c].sig)
      BY <1>3, <2>3, <3>1 DEF Unlock, Abstract!Tell
    <3> QED
      BY <2>1, <3>2 DEF Abstract!MNext
  <2> QED
    BY <2>2, <2>3
<1>4. CASE Next
  <2>1. Restart => Abstract!MNext
    BY DEF Restart, Abstract!MNext, Abstract!Forget
  <2>2. ASSUME NEW c \in Clients, NEW op \in {"Get", "Insert"},
               NEW sig \in Sigs, NEW seed \in Seeds, Invoke(c, op, sig, seed)
        PROVE  UNCHANGED <<data, told>>
    BY <2>2 DEF Invoke
  <2>3. ASSUME NEW c \in Clients, Lock(c) \/ Read(c) \/ Refuse(c) \/ Admit(c)
        PROVE  UNCHANGED <<data, told>>
    BY <2>3 DEF Lock, Read, Refuse, Admit
  <2> QED
    BY <1>1, <1>2, <1>3, <1>4, <2>1, <2>2, <2>3 DEF Next, Working
<1> QED
  BY <1>1, <1>4 DEF vars

LEMMA InitRefines == Init => Abstract!MInit
  BY DEF Init, Abstract!MInit

(* The store is a write-once map: each call takes effect at one step, the  *)
(* assignment or the return.                                               *)
THEOREM StoreRefinesMap ==
  Spec => ImplementsWriteOnceMap
<1>1. IInv /\ [Next]_vars => [Abstract!MNext]_<<data, told>>
  BY StepRefines
<1> QED
  BY <1>1, Initial, Inductive, InitRefines, PTL
  DEF Spec, ImplementsWriteOnceMap, Abstract!MSpec, Abstract!mapVars

(* No step rebinds a signature, and only a restart forgets one.            *)
THEOREM NeverRebound ==
  Spec => WriteOnce
<1>1. IInv /\ [Next]_vars =>
        [\A s \in Sigs : data[s] # Unbound =>
           data'[s] = data[s] \/ (data'[s] = Unbound /\ Restart)]_vars
  <2> SUFFICES ASSUME IInv, Next, NEW s \in Sigs, data[s] # Unbound
      PROVE  data'[s] = data[s] \/ (data'[s] = Unbound /\ Restart)
    OBVIOUS
  <2>1. CASE Restart
    BY <2>1 DEF Restart
  <2>2. ASSUME NEW c \in Clients, Assign(c) PROVE data'[s] = data[s]
    <3>1. data[call[c].sig] = Unbound
      BY <2>2 DEF Assign, IInv, LockDiscipline
    <3> QED
      BY <2>2, <3>1 DEF Assign, IInv, TypeOK
  <2>3. ASSUME NEW c \in Clients,
               Lock(c) \/ Read(c) \/ Refuse(c) \/ Admit(c) \/ Unlock(c)
        PROVE  data' = data
    BY <2>3 DEF Lock, Read, Refuse, Admit, Unlock
  <2>4. ASSUME NEW c \in Clients, NEW op \in {"Get", "Insert"},
               NEW sig \in Sigs, NEW seed \in Seeds, Invoke(c, op, sig, seed)
        PROVE  data' = data
    BY <2>4 DEF Invoke
  <2>5. ~Restart => data'[s] = data[s]
    BY <2>2, <2>3, <2>4 DEF Next, Working
  <2> QED
    BY <2>1, <2>5
<1> QED
  BY <1>1, Initial, Inductive, PTL DEF Spec, WriteOnce

(* All observers of a signature agree on its seed, because what each was   *)
(* told is what the map still says.                                        *)
THEOREM ObserversAgree ==
  Spec => []Agreement
<1>1. Init => ToldIsBound
  BY DEF Init, ToldIsBound
<1>2. IInv /\ ToldIsBound /\ [Next]_vars => ToldIsBound'
  <2> SUFFICES ASSUME IInv, ToldIsBound, [Next]_vars PROVE ToldIsBound'
    OBVIOUS
  <2>1. CASE UNCHANGED <<data, told>>
    BY <2>1 DEF ToldIsBound
  <2>2. ASSUME NEW sig \in Sigs, NEW seed \in Seeds, Abstract!Bind(sig, seed)
        PROVE  ToldIsBound'
    BY <2>2, StoreConstants DEF Abstract!Bind, ToldIsBound, IInv, TypeOK
  <2>3. ASSUME NEW c \in Clients, NEW sig \in Sigs, Abstract!Tell(c, sig)
        PROVE  ToldIsBound'
    <3>1. data[sig] \in Seeds
      BY <2>3 DEF Abstract!Tell, IInv, TypeOK
    <3>2. /\ UNCHANGED data
          /\ told' = [told EXCEPT ![c] = @ \cup {<<sig, data[sig]>>}]
      BY <2>3 DEF Abstract!Tell
    <3>3. ASSUME NEW d \in Clients, NEW b \in told'[d]
          PROVE  b \in told[d] \/ b = <<sig, data[sig]>>
      BY <3>2, <3>3 DEF IInv, TypeOK
    <3> QED
      BY <3>1, <3>2, <3>3 DEF ToldIsBound
  <2>4. CASE Abstract!Forget
    BY <2>4 DEF Abstract!Forget, ToldIsBound
  <2> QED
    BY <2>1, <2>2, <2>3, <2>4, StepRefines DEF Abstract!MNext
<1>3. ToldIsBound => Agreement
  BY DEF ToldIsBound, Agreement
<1> QED
  BY <1>1, <1>2, <1>3, Initial, Inductive, PTL DEF Spec
-------------------------------------------------------------------------------
(***************************************************************************)
(* Receipts.                                                               *)
(***************************************************************************)
RawHash == {Raw[s] : s \in HexStrings} \ {NoHash}

(* What Issue appends. *)
EntryOf(x, hashes, arg) ==
  [exec |-> x, built |-> hashes, rec |-> BuildReceipt(RequestID[x], hashes, arg)]

Entry ==
  {EntryOf(x, hashes, arg) :
     x \in Executions, hashes \in Seq(RawHash), arg \in Arguments}

Covered(i) == IsPrefixOf(receipts[i].built, trace[receipts[i].exec])

Ordered(i, j) ==
  i <= j /\ receipts[i].exec = receipts[j].exec
    => IsPrefixOf(receipts[i].built, receipts[j].built)

ReceiptInv ==
  /\ trace \in [Executions -> Seq(RawHash)]
  /\ panicked \subseteq Executions
  /\ receipts \in Seq(Entry)
  /\ \A i \in DOMAIN receipts : Covered(i)
  /\ \A i, j \in DOMAIN receipts : Ordered(i, j)

-------------------------------------------------------------------------------
(* A trace is a prefix of itself, and what is a prefix of it stays one     *)
(* when a hash is appended.                                                *)
LEMMA PrefixReflexive ==
  ASSUME NEW S, NEW s \in Seq(S)
  PROVE  IsPrefixOf(s, s)
BY DEF IsPrefixOf

LEMMA PrefixAppend ==
  ASSUME NEW S, NEW s \in Seq(S), NEW t \in Seq(S), NEW e \in S, IsPrefixOf(s, t)
  PROVE  IsPrefixOf(s, Append(t, e))
<1>1. Len(s) <= Len(Append(t, e))
  BY DEF IsPrefixOf
<1>2. SubSeq(Append(t, e), 1, Len(s)) = SubSeq(t, 1, Len(s))
  BY DEF IsPrefixOf
<1>. QED
  BY <1>1, <1>2 DEF IsPrefixOf

-------------------------------------------------------------------------------
LEMMA EntryFields ==
  ASSUME NEW e \in Entry
  PROVE  /\ e.exec \in Executions /\ e.built \in Seq(RawHash)
         /\ \E arg \in Arguments :
              e.rec = BuildReceipt(RequestID[e.exec], e.built, arg)
BY DEF Entry, EntryOf

LEMMA InvInit == ReceiptInit => ReceiptInv
BY DEF ReceiptInit, ReceiptInv, Covered, Ordered

(* An append moves one trace, and no receipt. *)
LEMMA InvAppend ==
  ASSUME ReceiptInv, NEW x \in Executions, NEW s \in HexStrings, AppendHash(x, s)
  PROVE  ReceiptInv'
<1>1. Raw[s] \in RawHash
  BY DEF AppendHash, RawHash
<1>2. trace' = [trace EXCEPT ![x] = Append(@, Raw[s])]
      /\ receipts' = receipts /\ panicked' = panicked
  BY DEF AppendHash, Extended
<1>3. trace' \in [Executions -> Seq(RawHash)]
  BY <1>1, <1>2 DEF ReceiptInv
<1>4. ASSUME NEW i \in DOMAIN receipts PROVE Covered(i)'
  <2>1. receipts[i].exec \in Executions /\ receipts[i].built \in Seq(RawHash)
    BY EntryFields DEF ReceiptInv
  <2>2. Covered(i)
    BY DEF ReceiptInv
  <2>3. CASE receipts[i].exec = x
    <3>1. trace'[x] = Append(trace[x], Raw[s]) /\ trace[x] \in Seq(RawHash)
      BY <1>2 DEF ReceiptInv
    <3>2. IsPrefixOf(receipts[i].built, trace'[x])
      BY <1>1, <2>1, <2>2, <2>3, <3>1, PrefixAppend DEF Covered
    <3>. QED
      BY <1>2, <2>3, <3>2 DEF Covered
  <2>4. CASE receipts[i].exec # x
    <3>1. trace'[receipts[i].exec] = trace[receipts[i].exec]
      BY <1>2, <2>1, <2>4 DEF ReceiptInv
    <3>. QED
      BY <1>2, <2>2, <3>1 DEF Covered
  <2>. QED
    BY <2>3, <2>4
<1>5. ASSUME NEW i \in DOMAIN receipts, NEW j \in DOMAIN receipts
      PROVE Ordered(i, j)'
  BY <1>2 DEF ReceiptInv, Ordered
<1>. QED
  BY <1>2, <1>3, <1>4, <1>5 DEF ReceiptInv

(* A receipt is added.  It is built over the present trace, and that covers *)
(* the trace of every earlier receipt of the execution.                     *)
LEMMA InvIssue ==
  ASSUME ReceiptInv, NEW x \in Executions, NEW arg \in Arguments, Issue(x, arg)
  PROVE  ReceiptInv'
<1>. DEFINE new == EntryOf(x, trace[x], arg)
            n == Len(receipts)
<1>1. receipts' = Append(receipts, new) /\ trace' = trace /\ panicked' = panicked
  BY DEF Issue, EntryOf
<1>2. trace[x] \in Seq(RawHash) /\ n \in Nat /\ DOMAIN receipts = 1..n
  BY DEF ReceiptInv
<1>3. new \in Entry /\ new.exec = x /\ new.built = trace[x]
  BY <1>2 DEF Entry, EntryOf
<1>4. receipts' \in Seq(Entry)
  BY <1>1, <1>3 DEF ReceiptInv
<1>5. /\ DOMAIN receipts' = 1..(n + 1)
      /\ \A i \in 1..n : receipts'[i] = receipts[i]
      /\ receipts'[n + 1] = new
  BY <1>1, <1>2 DEF ReceiptInv
<1>6. \A i \in 1..n : Covered(i)
  BY <1>2 DEF ReceiptInv
<1>7. IsPrefixOf(trace[x], trace[x])
  BY <1>2, PrefixReflexive
<1>8. ASSUME NEW i \in DOMAIN receipts' PROVE Covered(i)'
  <2>1. CASE i \in 1..n
    BY <1>1, <1>5, <1>6, <2>1 DEF Covered
  <2>2. CASE i = n + 1
    BY <1>1, <1>3, <1>5, <1>7, <2>2 DEF Covered
  <2>. QED
    BY <1>2, <1>5, <2>1, <2>2
<1>9. ASSUME NEW i \in DOMAIN receipts', NEW j \in DOMAIN receipts'
      PROVE Ordered(i, j)'
  <2>1. CASE i \in 1..n /\ j \in 1..n
    BY <1>2, <1>5, <2>1 DEF ReceiptInv, Ordered
  <2>2. CASE i \in 1..n /\ j = n + 1
    BY <1>3, <1>5, <1>6, <2>2 DEF Covered, Ordered
  <2>3. CASE i = n + 1 /\ j = n + 1
    BY <1>3, <1>5, <1>7, <2>3 DEF Ordered
  <2>4. CASE i = n + 1 /\ j \in 1..n
    BY <1>2, <2>4 DEF Ordered
  <2>. QED
    BY <1>2, <1>5, <2>1, <2>2, <2>3, <2>4
<1>. QED
  BY <1>1, <1>4, <1>8, <1>9 DEF ReceiptInv

LEMMA InvNext == ReceiptInv /\ [ReceiptNext]_receiptVars => ReceiptInv'
<1>. SUFFICES ASSUME ReceiptInv, [ReceiptNext]_receiptVars PROVE ReceiptInv'
  OBVIOUS
<1>1. ASSUME NEW x \in Executions, NEW s \in HexStrings, AppendPanics(x, s)
      PROVE ReceiptInv'
  BY <1>1 DEF AppendPanics, ReceiptInv, Covered, Ordered
<1>2. CASE UNCHANGED receiptVars
  BY <1>2 DEF receiptVars, ReceiptInv, Covered, Ordered
<1>. QED
  BY <1>1, <1>2, InvAppend, InvIssue DEF ReceiptNext

LEMMA Invariance == ReceiptSpec => []ReceiptInv
BY InvInit, InvNext, PTL DEF ReceiptSpec

-------------------------------------------------------------------------------
(* What a receipt says of its trace, its version and its status. *)
LEMMA Contents ==
  ASSUME ReceiptInv, NEW i \in DOMAIN receipts
  PROVE  /\ receipts[i].exec \in Executions /\ receipts[i].built \in Seq(RawHash)
         /\ receipts[i].rec.status \in Statuses
         /\ receipts[i].rec.traceRootHash = RootHash(receipts[i].built)
         /\ receipts[i].rec.traceEventCount = EventCount(receipts[i].built)
         /\ receipts[i].rec.status \in {"SUCCESS", "PARTIAL"} =>
              receipts[i].rec.replayBindingHash =
                ComputeReplayBinding(RootHash(receipts[i].built),
                  RootHash(receipts[i].built), CurrentRuntimeSemanticsVersion,
                  receipts[i].rec.ccnfVersion)
<1>1. receipts[i] \in Entry
  BY DEF ReceiptInv
<1>2. PICK arg \in Arguments :
        receipts[i].rec = BuildReceipt(RequestID[receipts[i].exec],
                                       receipts[i].built, arg)
  BY <1>1, EntryFields
<1>3. arg.status \in Statuses
  BY ReceiptConstants DEF Argument
<1>4. /\ receipts[i].rec.status = arg.status
      /\ receipts[i].rec.ccnfVersion = arg.ccnfVersion
      /\ receipts[i].rec.traceRootHash = RootHash(receipts[i].built)
      /\ receipts[i].rec.traceEventCount = EventCount(receipts[i].built)
      /\ receipts[i].rec.replayBindingHash = Binding(receipts[i].built, arg)
  BY <1>2 DEF BuildReceipt
<1>. QED
  BY <1>1, <1>3, <1>4, EntryFields DEF Binding

(***************************************************************************)
(* The traces, the panics and the receipts are of their types.             *)
(***************************************************************************)
THEOREM TypeCorrect == ReceiptSpec => []ReceiptTypes
<1>1. ReceiptInv => ReceiptTypes
  <2>. SUFFICES ASSUME ReceiptInv PROVE ReceiptTypes
    OBVIOUS
  <2>1. ASSUME NEW i \in DOMAIN receipts
        PROVE receipts[i].exec \in Executions /\ receipts[i].rec.status \in Statuses
    BY Contents
  <2>. QED
    BY <2>1 DEF ReceiptInv, ReceiptTypes, RawHash
<1>. QED
  BY <1>1, Invariance, PTL

(***************************************************************************)
(* Every receipt describes its execution at one moment, and the receipts   *)
(* of an execution lie on one history, for any number of either.           *)
(***************************************************************************)
THEOREM OneHistory == ReceiptSpec => []ReceiptsOfOneHistory
<1>1. ReceiptInv => ReceiptsOfOneHistory
  <2>. SUFFICES ASSUME ReceiptInv PROVE ReceiptsOfOneHistory
    OBVIOUS
  <2>1. ASSUME NEW i \in DOMAIN receipts
        PROVE /\ receipts[i].rec.traceRootHash = RootHash(receipts[i].built)
              /\ receipts[i].rec.traceEventCount = EventCount(receipts[i].built)
    BY Contents
  <2>. QED
    BY <2>1 DEF ReceiptInv, Covered, Ordered, ReceiptsOfOneHistory
<1>. QED
  BY <1>1, Invariance, PTL

(***************************************************************************)
(* A binding identifies the trace and the pipeline version, for any number *)
(* of executions and events (collisions of SHA-256 apart).                 *)
(***************************************************************************)
THEOREM BindingCorrect == ReceiptSpec => []BindingIdentifiesTrace
<1>1. ReceiptInv => BindingIdentifiesTrace
  <2>. SUFFICES ASSUME ReceiptInv, NEW i \in DOMAIN receipts, NEW j \in DOMAIN receipts,
                       Committed(i), Committed(j)
                PROVE receipts[i].rec.replayBindingHash = receipts[j].rec.replayBindingHash
                        <=> /\ receipts[i].built = receipts[j].built
                            /\ receipts[i].rec.ccnfVersion = receipts[j].rec.ccnfVersion
    BY DEF BindingIdentifiesTrace
  <2>1. ASSUME NEW k \in DOMAIN receipts, Committed(k)
        PROVE receipts[k].rec.replayBindingHash =
                ComputeReplayBinding(RootHash(receipts[k].built),
                  RootHash(receipts[k].built), CurrentRuntimeSemanticsVersion,
                  receipts[k].rec.ccnfVersion)
    BY <2>1, Contents DEF Committed
  <2>. QED
    BY <2>1 DEF ComputeReplayBinding, RootHash
<1>. QED
  BY <1>1, Invariance, PTL

(***************************************************************************)
(* After an accepted SUCCESS or PARTIAL no FAILURE of the same execution   *)
(* is accepted.                                                            *)
(***************************************************************************)
THEOREM NothingDenied == ReceiptSpec => []NoFailureAfterCommitment
<1>1. ReceiptInv => NoFailureAfterCommitment
  <2>. SUFFICES ASSUME ReceiptInv, NEW i \in DOMAIN receipts, NEW j \in DOMAIN receipts,
                       i < j, receipts[i].exec = receipts[j].exec, Committed(i),
                       receipts[j].rec.status = "FAILURE", Accepted(j)
                PROVE FALSE
    BY DEF NoFailureAfterCommitment
  <2>1. /\ receipts[i].rec.traceEventCount = Len(receipts[i].built)
        /\ receipts[j].rec.traceEventCount = Len(receipts[j].built)
    BY Contents DEF EventCount
  <2>2. Len(receipts[i].built) # 0
    BY <2>1 DEF Committed, Accepted, ValidateReceipt, ValidCommitment
  <2>3. Len(receipts[j].built) = 0
    BY <2>1 DEF Accepted, ValidateReceipt, ValidFailure
  <2>4. Len(receipts[i].built) <= Len(receipts[j].built)
    <3>1. i <= j
      BY DEF ReceiptInv
    <3>. QED
      BY <3>1 DEF ReceiptInv, Ordered, IsPrefixOf
  <2>5. Len(receipts[i].built) \in Nat
    BY EntryFields DEF ReceiptInv
  <2>. QED
    BY <2>2, <2>3, <2>4, <2>5
<1>. QED
  BY <1>1, Invariance, PTL
===============================================================================
