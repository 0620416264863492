---------------------------- MODULE IdentityStore -----------------------------
(***************************************************************************)
(* runtime/identity: the in-memory Store that assigns origin seeds, shared *)
(* by goroutines that call Get and Insert in any order.  Both methods hold *)
(* the store's mutex from their first to their last step.  The registry    *)
(* above the store is only an interface (registry.go), so the clients here *)
(* are the most general ones.  A StableID is a hash of a seed and a        *)
(* signature: two observers agree on the StableID of a signature exactly   *)
(* when they agree on its seed, so the pair stands for it.                 *)
(***************************************************************************)
CONSTANTS
  Clients,      \* the goroutines that share the store
  Sigs,         \* semantic signatures
  Seeds,        \* origin seeds
  Unbound,      \* no entry in the map
  Free          \* nobody holds the mutex

ASSUME StoreConstants ==
  /\ Unbound \notin Seeds
  /\ Free \notin Clients
  /\ Sigs # {} /\ Seeds # {}

VARIABLES
  data,         \* memoryStore.data
  owner,        \* the holder of memoryStore.mu
  call,         \* call[c]: the call client c is in
  told          \* told[c]: the bindings c has been told so far

vars == <<data, owner, call, told>>

Call == [pc: {"idle", "wait", "locked", "store", "unlock"},
         op: {"Get", "Insert"}, sig: Sigs, seed: Seeds,
         answer: Seeds \cup {Unbound}]

(* The clients that are between Lock and Unlock. *)
Inside(c) == call[c].pc \in {"locked", "store", "unlock"}

TypeOK ==
  /\ data \in [Sigs -> Seeds \cup {Unbound}]
  /\ owner \in Clients \cup {Free}
  /\ call \in [Clients -> Call]
  /\ told \in [Clients -> SUBSET (Sigs \X Seeds)]

NoCall ==
  [pc |-> "idle", op |-> "Get", sig |-> CHOOSE s \in Sigs : TRUE,
   seed |-> CHOOSE u \in Seeds : TRUE, answer |-> Unbound]

Init ==
  /\ data = [s \in Sigs |-> Unbound]
  /\ owner = Free
  /\ call = [c \in Clients |-> NoCall]
  /\ told = [c \in Clients |-> {}]

(* Client c calls Get(sig) or Insert(sig, seed). *)
Invoke(c, op, sig, seed) ==
  /\ call[c].pc = "idle"
  /\ call' = [call EXCEPT ![c] =
       [pc |-> "wait", op |-> op, sig |-> sig, seed |-> seed,
        answer |-> Unbound]]
  /\ UNCHANGED <<data, owner, told>>

(* The call of c moves to another line, with its result so far. *)
Goto(c, pc, answer) ==
  call' = [call EXCEPT ![c] =
    [pc |-> pc, op |-> call[c].op, sig |-> call[c].sig,
     seed |-> call[c].seed, answer |-> answer]]

(* Mutant of Lock: the mutex is not waited for.                            *)
LockFreely(c) ==
  /\ call[c].pc = "wait"
  /\ owner' = c
  /\ Goto(c, "locked", call[c].answer)
  /\ UNCHANGED <<data, told>>

Lock(c) ==
  /\ call[c].pc = "wait"
  /\ owner = Free
  /\ owner' = c
  /\ Goto(c, "locked", call[c].answer)
  /\ UNCHANGED <<data, told>>

(* Get reads the map; its ok result says whether there is an entry.  *)
Read(c) ==
  /\ call[c].pc = "locked" /\ call[c].op = "Get"
  /\ Goto(c, "unlock", data[call[c].sig])
  /\ UNCHANGED <<data, owner, told>>

(* Mutant of Exists: the presence test is forgotten.                       *)
ExistsNever(sig) == FALSE

Exists(sig) == data[sig] # Unbound

(* Insert returns ErrAlreadyExists ... *)
Refuse(c) ==
  /\ call[c].pc = "locked" /\ call[c].op = "Insert"
  /\ Exists(call[c].sig)
  /\ Goto(c, "unlock", call[c].answer)
  /\ UNCHANGED <<data, owner, told>>

(* ... or goes on to the assignment ... *)
Admit(c) ==
  /\ call[c].pc = "locked" /\ call[c].op = "Insert"
  /\ ~Exists(call[c].sig)
  /\ Goto(c, "store", call[c].answer)
  /\ UNCHANGED <<data, owner, told>>

(* ... and returns nil. *)
Assign(c) ==
  /\ call[c].pc = "store"
  /\ data' = [data EXCEPT ![call[c].sig] = call[c].seed]
  /\ Goto(c, "unlock", call[c].seed)
  /\ UNCHANGED <<owner, told>>

(* Mutant of Release: an early return forgets the mutex.                   *)
ReleaseOnSuccess(c) == IF call[c].answer # Unbound THEN Free ELSE owner

Release(c) == Free

(* The deferred Unlock and the return; the caller knows what it was told.  *)
Unlock(c) ==
  /\ call[c].pc = "unlock"
  /\ owner' = Release(c)
  /\ Goto(c, "idle", call[c].answer)
  /\ told' = [told EXCEPT ![c] =
       IF call[c].answer # Unbound THEN @ \cup {<<call[c].sig, call[c].answer>>}
                                   ELSE @]
  /\ UNCHANGED data

(* The process ends, its goroutines with it, and a new one makes a new     *)
(* store (NewMemoryStore).                                                 *)
Restart ==
  /\ data' = [s \in Sigs |-> Unbound]
  /\ owner' = Free
  /\ call' = [c \in Clients |-> NoCall]
  /\ told' = [c \in Clients |-> {}]

Working(c) == Read(c) \/ Refuse(c) \/ Admit(c) \/ Assign(c) \/ Unlock(c)

Next ==
  \/ \E c \in Clients :
       \/ \E op \in {"Get", "Insert"}, sig \in Sigs, seed \in Seeds :
            Invoke(c, op, sig, seed)
       \/ Lock(c)
       \/ Working(c)
  \/ Restart

Spec == Init /\ [][Next]_vars

(* A goroutine that is not blocked goes on; sync.Mutex hands itself to a   *)
(* waiter it has starved, so a waiter who finds it free again and again    *)
(* gets it.                                                                *)
FairSpec ==
  Spec /\ \A c \in Clients : WF_vars(Working(c)) /\ SF_vars(Lock(c))

-------------------------------------------------------------------------------
(***************************************************************************)
(* ADR-002, Invariant I across observers: whoever was told a seed for a    *)
(* signature, by a Get or by the Insert that made it, and whenever in the  *)
(* life of the process, was told the same seed.                            *)
(***************************************************************************)
Agreement ==
  \A c, d \in Clients : \A b \in told[c], e \in told[d] :
    b[1] = e[1] => b[2] = e[2]

(***************************************************************************)
(* The mutex does its work: its holder is the one client inside, what      *)
(* Insert found absent is absent when it assigns, and a positive answer is *)
(* still the binding when the mutex is given back, restarts included.      *)
(***************************************************************************)
LockDiscipline ==
  \A c \in Clients :
    /\ Inside(c) <=> owner = c
    /\ call[c].pc = "store" => data[call[c].sig] = Unbound
    /\ call[c].pc = "unlock" /\ call[c].answer # Unbound
         => data[call[c].sig] = call[c].answer

(***************************************************************************)
(* Write-once: no step rebinds a signature, and none but a restart forgets *)
(* one.                                                                    *)
(***************************************************************************)
WriteOnce ==
  [][\A s \in Sigs :
       data[s] # Unbound =>
         data'[s] = data[s] \/ (data'[s] = Unbound /\ Restart)]_vars

(***************************************************************************)
(* The store implements the abstract map; a call takes effect in one step  *)
(* although it holds the mutex over several.                               *)
(***************************************************************************)
Abstract == INSTANCE WriteOnceMap

ImplementsWriteOnceMap == Abstract!MSpec

(***************************************************************************)
(* Every call returns, also the one that is refused, whatever the others   *)
(* do: no path keeps the mutex.                                            *)
(***************************************************************************)
CallsReturn ==
  \A c \in Clients : call[c].pc = "wait" ~> call[c].pc = "idle"
===============================================================================
