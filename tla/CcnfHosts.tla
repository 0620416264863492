------------------------------ MODULE CcnfHosts ------------------------------
(***************************************************************************)
(* Hosts that run the CCNF pipeline: each Run has the clock of its host    *)
(* and its own map ranges; the records travel to other hosts serialized,   *)
(* and a received record may be parsed or be run through the pipeline      *)
(* again.  Module Harness adds the two other programs that call Run, and    *)
(* puts the specification together.                                        *)
(***************************************************************************)
EXTENDS Ccnf

CONSTANTS RawEvents,    \* the inputs offered to the pipeline, decoded
          Versions,     \* the versions a caller asks for
          Orders,       \* the keys a Run may meet last in its map ranges
          MaxClock,     \* bound: the last second
          MaxRuns       \* bound: runs kept for comparison

\* A document as the JSON decoder returns it.
Document(v) == /\ v = [p \in DOMAIN v |-> v[p]]
               /\ DOMAIN v \subseteq Seq(Name) /\ <<>> \in DOMAIN v
               /\ \A p \in DOMAIN v : v[p][1] # "go"

ASSUME RawAssumption == \A v \in RawEvents : Document(v)

VARIABLES clock,        \* time.Now().Unix()
          runs,         \* what each Run was given, and its outcome
          received      \* records parsed from the wire, beside the ones sent

hostVars == <<clock, runs, received>>

HostInit == clock = 1 /\ runs = {} /\ received = {}

Records == {r.result.cer : r \in {x \in runs : x.result.error = ""}}

Tick == clock < MaxClock /\ clock' = clock + 1 /\ UNCHANGED <<runs, received>>

Compile(raw, version, late) ==
  /\ Cardinality(runs) < MaxRuns
  /\ runs' = runs \cup {[raw |-> raw, version |-> version,
                         result |-> Run(raw, version, clock, late)]}
  /\ UNCHANGED <<clock, received>>

\* A serialized record is itself an input of the pipeline: what one process of
\* the command line tool wrote is what the next one reads (processInput).
Recompile(cer, late) == Compile(SerializeCER(cer), CurrentCCNFVersion, late)

Receive(cer) ==
  /\ received' = received \cup {[sent |-> cer, got |-> ParseCER(SerializeCER(cer))]}
  /\ UNCHANGED <<clock, runs>>

HostNext == \/ \E raw \in RawEvents, v \in Versions, late \in Orders : Compile(raw, v, late)
            \/ \E cer \in Records, late \in Orders : Recompile(cer, late)
            \/ \E cer \in Records : Receive(cer)

-----------------------------------------------------------------------------
(* What an input means, apart from its encoding.                           *)

\* No two keys of an object normalize to the same one.
Distinct(v) == \A p, q \in DOMAIN v : normalizePath(p) = normalizePath(q) => p = q

Meaning(raw) == CanonicalizeFields(raw, {})

Stamped(raw) == parseTimestamp(Meaning(raw)) # 0

Subject(raw) == LET i == getMap(Meaning(raw), "intent")
                IN <<getString(Meaning(raw), "domain"), getMap(Meaning(raw), "actor"),
                     getString(i, "action"), getString(i, "target_type"),
                     getString(i, "target_id")>>

\* What Run asks of the input before it normalizes anything.
SameFront(a, b) ==
  /\ StructuralParse(a.raw) <=> StructuralParse(b.raw)
  /\ checkEmbeddedVersion(Members(a.raw), a.version)
       <=> checkEmbeddedVersion(Members(b.raw), b.version)

\* Inputs that differ only in the encoding of their strings and dates get the
\* same record or the same refusal on every host, at every time and whatever
\* the order of the map ranges, provided that no two keys normalize alike and
\* that the input carries a date (CCNF_SPEC I1 and I5 ask it of every input).
\* The names of the required members and of the version have to be normalized,
\* since Run looks for these before it normalizes: SameFront.
SameMeaningSameOutcome ==
  \A a, b \in runs :
    (/\ a.version = b.version
     /\ IsObj(a.raw) /\ IsObj(b.raw) /\ Distinct(a.raw) /\ Distinct(b.raw)
     /\ SameFront(a, b)
     /\ Meaning(a.raw) = Meaning(b.raw) /\ Stamped(a.raw))
      => a.result = b.result

\* Two accepted events have one entity key exactly when they agree on domain,
\* actor and intent: nothing else of the event, its date, its payload or its
\* id, reaches the key, and nothing of those three is lost on the way
\* (CCNF_SPEC I3 and I4).
EntityKeyIsTheSubject ==
  \A a, b \in runs :
    (a.result.error = "" /\ b.result.error = "" /\ Distinct(a.raw) /\ Distinct(b.raw))
      => (a.result.cer.entity_key = b.result.cer.entity_key
            <=> Subject(a.raw) = Subject(b.raw))

\* The pipeline accepts its own output, at any later time, and gives it the
\* hash and the entity key it had.
RecompileKeepsHash ==
  \A a, b \in runs :
    (a.result.error = "" /\ b.raw = SerializeCER(a.result.cer)
       /\ b.version = CurrentCCNFVersion)
      => /\ b.result.error = ""
         /\ b.result.cer.signature = a.result.cer.signature
         /\ b.result.cer.entity_key = a.result.cer.entity_key

\* The signature of a record that crossed the wire verifies on the other side.
WireKeepsHash ==
  \A p \in received : /\ p.got.signature = p.sent.signature
                      /\ ComputeHash(p.got) = p.got.signature

\* CER_SPEC C4: the hash commits to every other field, so records that differ
\* have different hashes.
HashAnchored == \A c, d \in Records : c.signature = d.signature => c = d
=============================================================================
