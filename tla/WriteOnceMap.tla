----------------------------- MODULE WriteOnceMap -----------------------------
(***************************************************************************)
(* What the identity store promises (ADR-002, Write-once store): a         *)
(* signature is bound to a seed at most once and never unbound, and what a *)
(* client is told about a signature is the binding.  The map lives in the  *)
(* memory of the process and so do its clients.                            *)
(***************************************************************************)
CONSTANTS
  Clients,   \* the goroutines that share the store
  Sigs,      \* semantic signatures
  Seeds,     \* origin seeds
  Unbound    \* a signature without a seed

VARIABLES
  data,      \* the bindings
  told       \* told[c]: the <<signature, seed>> pairs client c was told

mapVars == <<data, told>>

MInit ==
  /\ data = [s \in Sigs |-> Unbound]
  /\ told = [c \in Clients |-> {}]

Bind(sig, seed) ==
  /\ data[sig] = Unbound
  /\ data' = [data EXCEPT ![sig] = seed]
  /\ UNCHANGED told

Tell(c, sig) ==
  /\ data[sig] # Unbound
  /\ told' = [told EXCEPT ![c] = @ \cup {<<sig, data[sig]>>}]
  /\ UNCHANGED data

(* The process ends and another one starts. *)
Forget ==
  /\ data' = [s \in Sigs |-> Unbound]
  /\ told' = [c \in Clients |-> {}]

MNext ==
  \/ \E sig \in Sigs :
       \/ \E seed \in Seeds : Bind(sig, seed)
       \/ \E c \in Clients : Tell(c, sig)
  \/ Forget

MSpec == MInit /\ [][MNext]_mapVars
===============================================================================
