------------------------------- MODULE Receipts -------------------------------
(***************************************************************************)
(* Package runtime: executions append the hashes of their CERs to a trace  *)
(* and build receipts that commit to it.  Nothing orders the two: a caller *)
(* may build a receipt, go on appending, and build another one, so that    *)
(* receipts of several moments of several traces circulate together.       *)
(*                                                                         *)
(* A SHA-256 digest stands for the bytes that were hashed.  Hashes of CERs *)
(* arrive as hex strings; decoding makes one of several spellings and      *)
(* panics on what is no hash.  Validation is a predicate: it changes       *)
(* nothing, and whoever holds a receipt may ask for it at any time.        *)
(***************************************************************************)
EXTENDS Integers, Sequences

CONSTANTS
  Executions,   \* the executions, each with a TraceBuilder of its own
  RequestID,    \* RequestID[x]: the id of the request of execution x
  HexStrings,   \* what callers pass as the hash of a CER
  Raw,          \* Raw[s]: the 32 bytes that s decodes to, or NoHash
  NoHash,       \* s is no hash
  Empty,        \* the empty string
  Arguments,    \* what callers pass to BuildReceipt
  MaxTrace,     \* bound on the length of a trace
  MaxReceipts   \* bound on the number of receipts

Statuses == {"SUCCESS", "FAILURE", "PARTIAL", "OTHER"}

Argument == [status: Statuses, ccnfHash: HexStrings \cup {Empty},
             failure: {"nil", "node"}, durationMs: Int, ccnfVersion: Int]

ASSUME ReceiptConstants ==
  /\ Arguments \subseteq Argument
  /\ MaxTrace \in Nat /\ MaxReceipts \in Nat
  /\ Empty \notin HexStrings

VARIABLES
  trace,      \* trace[x]: TraceBuilder.hashes of execution x
  receipts,   \* the receipts built, each with its execution and the trace then
  panicked    \* the executions ended by a panic

receiptVars == <<trace, receipts, panicked>>

-------------------------------------------------------------------------------
(* Mutant of RootHash: the hashes are combined without their order.        *)
RootHashUnordered(hashes) ==
  <<"ccnf-domain:trace:v1", Len(hashes), {hashes[i] : i \in 1..Len(hashes)}>>

RootHash(hashes) == <<"ccnf-domain:trace:v1", Len(hashes), hashes>>

EventCount(hashes) == Len(hashes)

CurrentRuntimeSemanticsVersion == 1

ComputeReplayBinding(cerRoot, traceRoot, semantics, ccnf) ==
  <<"ccnf-domain:replay-binding:v1", cerRoot, traceRoot, semantics, ccnf>>

(* A receipt without a binding has the empty string there.                 *)
Binding(hashes, arg) ==
  IF arg.status \in {"SUCCESS", "PARTIAL"}
  THEN ComputeReplayBinding(RootHash(hashes), RootHash(hashes),
                            CurrentRuntimeSemanticsVersion, arg.ccnfVersion)
  ELSE <<>>

BuildReceipt(requestID, hashes, arg) ==
  [requestID |-> requestID, ccnfHash |-> arg.ccnfHash,
   cerRootHash |-> RootHash(hashes), traceRootHash |-> RootHash(hashes),
   traceEventCount |-> EventCount(hashes),
   replayBindingHash |-> Binding(hashes, arg),
   status |-> arg.status, failure |-> arg.failure,
   durationMs |-> arg.durationMs, ccnfVersion |-> arg.ccnfVersion]

(* Mutant of ValidFailure: the count of events is not looked at.           *)
ValidFailureAnyTrace(rec) == rec.failure = "node"

ValidFailure(rec) == rec.failure = "node" /\ rec.traceEventCount = 0

(* The part that SUCCESS and PARTIAL have in common.                       *)
ValidCommitment(rec) ==
  /\ rec.ccnfHash # Empty
  /\ rec.traceRootHash # <<>> /\ rec.traceEventCount # 0
  /\ rec.replayBindingHash # <<>>

(* A status that is none of the three is not looked at any further.        *)
ValidateReceipt(rec) ==
  /\ rec.requestID # Empty
  /\ rec.durationMs >= 0
  /\ rec.status = "SUCCESS" => rec.failure = "nil" /\ ValidCommitment(rec)
  /\ rec.status = "FAILURE" => ValidFailure(rec)
  /\ rec.status = "PARTIAL" => rec.failure = "node" /\ ValidCommitment(rec)

-------------------------------------------------------------------------------
ReceiptInit ==
  /\ trace = [x \in Executions |-> <<>>]
  /\ receipts = <<>>
  /\ panicked = {}

(* Mutant of Extended: the builder keeps the last hash only.               *)
ExtendedByReplacing(hashes, raw) == <<raw>>

Extended(hashes, raw) == Append(hashes, raw)

(* Mutant of AppendHash: the error of the decoder is ignored.              *)
AppendHashUnchecked(x, s) ==
  /\ x \notin panicked
  /\ Len(trace[x]) < MaxTrace
  /\ trace' = [trace EXCEPT ![x] = Extended(@, Raw[s])]
  /\ UNCHANGED <<receipts, panicked>>

AppendHash(x, s) ==
  /\ x \notin panicked
  /\ Raw[s] # NoHash
  /\ Len(trace[x]) < MaxTrace
  /\ trace' = [trace EXCEPT ![x] = Extended(@, Raw[s])]
  /\ UNCHANGED <<receipts, panicked>>

(* The panic comes before the assignment: the trace stays what it was.     *)
AppendPanics(x, s) ==
  /\ x \notin panicked
  /\ Raw[s] = NoHash
  /\ panicked' = panicked \cup {x}
  /\ UNCHANGED <<trace, receipts>>

Issue(x, arg) ==
  /\ x \notin panicked
  /\ Len(receipts) < MaxReceipts
  /\ receipts' = Append(receipts,
       [exec |-> x, built |-> trace[x],
        rec |-> BuildReceipt(RequestID[x], trace[x], arg)])
  /\ UNCHANGED <<trace, panicked>>

ReceiptNext ==
  \E x \in Executions :
    \/ \E s \in HexStrings : AppendHash(x, s) \/ AppendPanics(x, s)
    \/ \E arg \in Arguments : Issue(x, arg)

ReceiptSpec == ReceiptInit /\ [][ReceiptNext]_receiptVars

-------------------------------------------------------------------------------
Accepted(i) == ValidateReceipt(receipts[i].rec)

ReceiptTypes ==
  /\ trace \in [Executions -> Seq({Raw[s] : s \in HexStrings} \ {NoHash})]
  /\ panicked \subseteq Executions
  /\ \A i \in DOMAIN receipts :
       /\ receipts[i].exec \in Executions
       /\ receipts[i].rec.status \in Statuses

IsPrefixOf(s, t) == Len(s) <= Len(t) /\ s = SubSeq(t, 1, Len(s))

(***************************************************************************)
(* A receipt speaks of one moment of its execution: the root and the count *)
(* in it describe the trace as it was when the receipt was built, and that *)
(* trace is a prefix of the present one, however much was appended since.  *)
(* Of two receipts of an execution the later one covers the earlier one.   *)
(***************************************************************************)
ReceiptsOfOneHistory ==
  \A i \in DOMAIN receipts :
    /\ receipts[i].rec.traceRootHash = RootHash(receipts[i].built)
    /\ receipts[i].rec.traceEventCount = EventCount(receipts[i].built)
    /\ IsPrefixOf(receipts[i].built, trace[receipts[i].exec])
    /\ \A j \in DOMAIN receipts :
         i <= j /\ receipts[i].exec = receipts[j].exec
           => IsPrefixOf(receipts[i].built, receipts[j].built)

(***************************************************************************)
(* REPLAY_BINDING_SPEC 3.4: two accepted receipts with commitments, of     *)
(* any executions and any moments, have one binding exactly when they were *)
(* built over the same hashes in the same order by one pipeline version,   *)
(* however the hashes were spelled.                                        *)
(***************************************************************************)
Committed(i) == Accepted(i) /\ receipts[i].rec.status \in {"SUCCESS", "PARTIAL"}

BindingIdentifiesTrace ==
  \A i, j \in DOMAIN receipts :
    Committed(i) /\ Committed(j) =>
      (receipts[i].rec.replayBindingHash = receipts[j].rec.replayBindingHash
        <=> /\ receipts[i].built = receipts[j].built
            /\ receipts[i].rec.ccnfVersion = receipts[j].rec.ccnfVersion)

(***************************************************************************)
(* EXECUTION_RECEIPT_SPEC TR3 over time: once a receipt with a commitment  *)
(* was accepted, no later FAILURE of the same execution is: the CERs that  *)
(* were emitted cannot be denied.                                          *)
(***************************************************************************)
NoFailureAfterCommitment ==
  \A i, j \in DOMAIN receipts :
    i < j /\ receipts[i].exec = receipts[j].exec
      /\ Committed(i) /\ receipts[j].rec.status = "FAILURE"
      => ~Accepted(j)
===============================================================================
