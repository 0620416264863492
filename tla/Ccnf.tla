-------------------------------- MODULE Ccnf --------------------------------
(***************************************************************************)
(* The canonical normalization pipeline of package ccnf (ccnf/ccnf.go,     *)
(* Run) and the wire format of its result, the canonical event record      *)
(* (CER).  Everything here is a pure operator; module CcnfHosts runs it.   *)
(*                                                                         *)
(* A JSON document is a function from its paths, the sequences of member   *)
(* names and places in arrays that lead to its values, to what is there: a *)
(* scalar with its kind, or the kind alone of an object or an array.  A    *)
(* decoded object (map[string]any) is a function from its keys to          *)
(* documents.  A value of a Go type other than those decoded from JSON has *)
(* the kind "go", because the encoder treats it apart.                     *)
(* A hash is the term of its input: SHA-256 is taken to be injective.      *)
(* The two things Run reads besides its input are parameters: the clock    *)
(* (now) and the keys that its ranges over maps meet last (late).          *)
(***************************************************************************)
EXTENDS Integers, Sequences, FiniteSets, SequencesExt

CONSTANTS Norm,         \* NFC and zero-width stripping, where not the identity
          ParsedTime,   \* the strings that are RFC 3339 dates, in seconds
          Lex           \* the artifact ids in lexicographic order

\* The members and the strings that the pipeline itself reads or writes.
Fixed == {"actor", "intent", "domain", "event_id", "timestamp", "ccnf_version", "payload",
          "causality", "type", "action", "target_type", "target_id", "data", "ordered",
          "parent_event_ids", "causal_chain_id", "trace_depth", "event_version", "system",
          "identity", "entity_key", "scope", "collapse_key", "alias_keys", "artifact_refs",
          "state_delta", "signature", "hash", "normalized_verb", "structured", "nexus", ""}

Name == STRING    \* what a member can be called

\* The names of places in arrays, which are no member's name (bound: three).
Place == <<"[0]", "[1]", "[2]">>

Spelled == Fixed \cup Range(Place) \cup Range(Lex)

\* Normalization is idempotent, and leaves alone what the source spells out
\* (plain ASCII) and the ids, which the code compares with normalized strings.
ASSUME NormAssumption ==
  /\ DOMAIN Norm \subseteq Name /\ Norm \in [DOMAIN Norm -> Name \ DOMAIN Norm]
  /\ Spelled \subseteq Name \ DOMAIN Norm

Leaf(x)   == [p \in {<<>>} |-> x]
Str(s)    == Leaf(<<"string", s>>)
Bool(b)   == Leaf(<<"bool", b>>)
Num(n)    == Leaf(<<"number", n>>)
Digest(h) == Leaf(<<"digest", h>>)      \* a string of hex digits
Go(x)     == Leaf(<<"go", x>>)
Null      == Leaf(<<"null">>)
Empty     == [k \in {} |-> Null]

Tree(kind, f) ==
  [p \in {<<>>} \cup UNION {{Cons(k, q) : q \in DOMAIN f[k]} : k \in DOMAIN f} |->
     IF p = <<>> THEN <<kind>> ELSE f[Head(p)][Tail(p)]]
Obj(f) == Tree("object", f)
Arr(s) == Tree("array", [k \in {Place[i] : i \in DOMAIN s} |->
                           s[CHOOSE i \in DOMAIN s : Place[i] = k]])

Kind(v)    == v[<<>>][1]
Content(v) == v[<<>>][2]
IsObj(v)   == Kind(v) = "object"

\* The object at the root of a document, decoded.
Keys(v)    == {p[1] : p \in {q \in DOMAIN v : Len(q) = 1}}
At(v, k)   == [q \in {Tail(p) : p \in {x \in DOMAIN v : x # <<>> /\ Head(x) = k}} |->
                 v[Cons(k, q)]]
Members(v) == [k \in Keys(v) |-> At(v, k)]

Sha(v) == <<"sha256", v>>

-----------------------------------------------------------------------------
(* Reading a decoded object: an absent or mistyped member reads as nothing. *)

Has(m, k)       == k \in DOMAIN m
Nested(m, k)    == Has(m, k) /\ IsObj(m[k])
getString(m, k) == IF Has(m, k) /\ Kind(m[k]) = "string" THEN Content(m[k]) ELSE ""
getMap(m, k)    == IF Nested(m, k) THEN Members(m[k]) ELSE Empty

-----------------------------------------------------------------------------
(* CanonicalizeFields: strings, then dates, then absent fields.            *)

normalizeString(s) == IF s \in DOMAIN Norm THEN Norm[s] ELSE s

normalizeLeaf(x) == IF x[1] = "string" THEN <<"string", normalizeString(x[2])>> ELSE x
normalizePath(p) == [i \in DOMAIN p |-> normalizeString(p[i])]

\* Two keys of an object that normalize alike are one key, and the later one
\* in the range over the object overwrites the value of the earlier.
Winner(v, p, late) ==
  LET spellings == {q \in DOMAIN v : /\ Len(q) = Len(p) /\ Front(q) = Front(p)
                                     /\ normalizePath(q) = normalizePath(p)}
  IN CHOOSE q \in spellings : Last(q) \in late \/ \A r \in spellings : Last(r) \notin late

normalizeStrings(v, late) ==
  LET lost == {p \in DOMAIN v \ {<<>>} : Winner(v, p, late) # p}
      kept == {p \in DOMAIN v : \A n \in 1..Len(p) : SubSeq(p, 1, n) \notin lost}
  IN [q \in {normalizePath(p) : p \in kept} |->
        normalizeLeaf(v[CHOOSE p \in kept : normalizePath(p) = q])]

\* The two passes below go into objects and into the objects of an array, but
\* not into an array that is directly in an array.
Visited(p) == \A i \in 1..(Len(p) - 1) : ~(p[i] \in Range(Place) /\ p[i + 1] \in Range(Place))
Named(p, k) == Visited(p) /\ p # <<>> /\ p[Len(p)] = k

convertTimestamp(p, x) ==
  IF Named(p, "timestamp") /\ x[1] = "string" /\ x[2] \in DOMAIN ParsedTime
  THEN <<"number", ParsedTime[x[2]]>> ELSE x
convertTimestamps(v) == [p \in DOMAIN v |-> convertTimestamp(p, v[p])]

normalizeAbsent(p, x) ==
  IF Named(p, "collapse_key") /\ x = <<"string", "">> THEN <<"null">> ELSE x
normalizeAbsentFields(v) == [p \in DOMAIN v |-> normalizeAbsent(p, v[p])]

CanonicalizeFields(v, late) ==
  Members(normalizeAbsentFields(convertTimestamps(normalizeStrings(v, late))))

-----------------------------------------------------------------------------
(* CanonicalJSON: keys sorted, so an object is encoded as a function; what *)
(* the encoder has no case for (string slices, string pointers, slices of  *)
(* maps, structs) is written as null.                                      *)

encode(x) == IF x[1] = "go" THEN <<"null">> ELSE x
CanonicalJSON(v) == [p \in DOMAIN v |-> encode(v[p])]

-----------------------------------------------------------------------------
(* The stages of Run after canonicalization.                               *)

CurrentCCNFVersion == 1
controlledVocab == {"create", "update", "delete", "execute", "validate", "emit"}
Required == {"actor", "intent", "domain", "event_id"}

StructuralParse(v) == IsObj(v) /\ Required \subseteq Keys(v)

checkEmbeddedVersion(m, version) ==
  Has(m, "ccnf_version") /\ Kind(m["ccnf_version"]) = "number"
    => Content(m["ccnf_version"]) = version

IntentOK(m) == /\ Nested(m, "intent")
               /\ getString(getMap(m, "intent"), "action") \in controlledVocab

NormalizeIntent(m) ==
  [type        |-> Str("normalized_verb"),
   action      |-> Str(getString(getMap(m, "intent"), "action")),
   target_type |-> Str(getString(getMap(m, "intent"), "target_type")),
   target_id   |-> Str(getString(getMap(m, "intent"), "target_id"))]

isValidArtifactID(id) == id \in Range(Lex)

checkTargetID(m) == LET id == getString(getMap(m, "intent"), "target_id")
                    IN id = "" \/ isValidArtifactID(id)

Data(m) == getMap(getMap(m, "payload"), "data")

ArtifactsOK(m) == \A k \in DOMAIN Data(m) : isValidArtifactID(k) /\ IsObj(Data(m)[k])

\* Mutant: the keys in the order of the range, without the sort.
SortedKeysRanged(m, late) ==
  SelectSeq(Lex, LAMBDA k : k \in DOMAIN Data(m) \ late)
    \o SelectSeq(Lex, LAMBDA k : k \in DOMAIN Data(m) \cap late)

\* sort.Strings over the keys of payload.data, whatever the order of the range
SortedKeys(m, late) == SelectSeq(Lex, LAMBDA k : k \in DOMAIN Data(m))

ResolveArtifacts(m, late) == SortedKeys(m, late)

ComputeStateDeltas(m, refs) ==
  [i \in DOMAIN refs |->
     [artifact_id |-> refs[i],
      before_hash |-> Null,
      after_hash  |-> Sha(CanonicalJSON(Data(m)[refs[i]])),
      patch       |-> Data(m)[refs[i]]]]

domainToScope(d) ==
  IF d = "execution" THEN "executiongraph.v2" ELSE d \o ".v1"

\* Mutant: the actor forgotten among the hashed fields.
DeriveIdentityNoActor(m) ==
  Sha([domain |-> Str(getString(m, "domain")),
       scope  |-> domainToScope(getString(m, "domain")),
       intent |-> CanonicalJSON(Obj(getMap(m, "intent")))])

DeriveIdentity(m) ==
  Sha([domain |-> Str(getString(m, "domain")),
       scope  |-> domainToScope(getString(m, "domain")),
       intent |-> CanonicalJSON(Obj(getMap(m, "intent"))),
       actor  |-> CanonicalJSON(Obj(getMap(m, "actor")))])

\* A string pointer: nil unless the intent names both a type and an id.
DeriveCollapseKey(m) ==
  LET t == getString(getMap(m, "intent"), "target_type")
      i == getString(getMap(m, "intent"), "target_id")
  IN IF t = "" \/ i = "" THEN "nil" ELSE t \o ":" \o i

parseTimestamp(m) ==
  IF ~Has(m, "timestamp") THEN 0
  ELSE LET t == m["timestamp"]
       IN IF Kind(t) = "number" THEN Content(t)
          ELSE IF Kind(t) = "string" /\ Content(t) \in DOMAIN ParsedTime
               THEN ParsedTime[Content(t)] ELSE 0

Stamp(m, now) == IF parseTimestamp(m) = 0 THEN now ELSE parseTimestamp(m)

\* Members of the first win over those of the second.
Over(f, g) == [k \in DOMAIN f \cup DOMAIN g |-> IF k \in DOMAIN f THEN f[k] ELSE g[k]]

normalizeCausality(m) ==
  LET always == [ordered |-> Bool(TRUE), parent_event_ids |-> Arr(<<>>)]
  IN IF Nested(m, "causality") THEN Over(getMap(m, "causality"), always)
     ELSE Over(always, [causal_chain_id |-> Str(""), trace_depth |-> Num(0)])

\* Mutant: the other members nested under meta instead of kept beside data.
buildPayloadNested(m) ==
  [type |-> Str("structured"), data |-> Obj(Empty),
   meta |-> Obj([k \in DOMAIN getMap(m, "payload") \ {"data", "type"} |->
                   getMap(m, "payload")[k]])]

\* Artifacts leave the payload; members other than data and type stay as they are.
buildPayload(m) ==
  LET raw  == getMap(m, "payload")
      kept == {k \in DOMAIN Data(m) : ~isValidArtifactID(k)}
  IN Over([type |-> Str("structured"), data |-> Obj([k \in kept |-> Data(m)[k]])],
          raw)

-----------------------------------------------------------------------------
(* The canonical event record and its signature.                           *)

BuildCERMap(cer) ==
  [event_id |-> Str(cer.event_id), event_version |-> Num(1),
   ccnf_version |-> Num(cer.ccnf_version), system |-> Str("nexus"),
   domain |-> Str(cer.domain), timestamp |-> Num(cer.timestamp),
   actor |-> Obj(cer.actor), intent |-> Obj(cer.intent),
   identity |-> Obj([entity_key |-> Digest(cer.entity_key), type |-> Str("event"),
                     scope |-> Str(domainToScope(cer.domain)),
                     collapse_key |-> Go(cer.collapse_key),
                     alias_keys |-> Go(<<>>)]),
   causality |-> Obj(cer.causality), artifact_refs |-> Go(cer.artifact_refs),
   state_delta |-> Go(cer.state_delta), payload |-> Obj(cer.payload)]

\* Mutant: the signature left in the map that is hashed.
ComputeHashSigned(cer) ==
  LET sig == IF "signature" \in DOMAIN cer THEN Obj([hash |-> Digest(cer.signature)])
                                          ELSE Null
  IN Sha(CanonicalJSON(Obj(Over([signature |-> sig], BuildCERMap(cer)))))

ComputeHash(cer) == Sha(CanonicalJSON(Obj(BuildCERMap(cer))))

\* Run of the input v, canonicalized as m, up to its last early return: the
\* error class, or "" when there is none.
RunError(v, m, version) ==
  IF version # CurrentCCNFVersion                     THEN "CCNF_VERSION_MISMATCH"
  ELSE IF ~StructuralParse(v)                         THEN "STRUCTURAL_PARSE_FAILURE"
  ELSE IF ~checkEmbeddedVersion(Members(v), version)  THEN "CCNF_VERSION_MISMATCH"
  ELSE IF ~IntentOK(m)                                THEN "INTENT_NORMALIZATION_FAILURE"
  ELSE IF ~checkTargetID(m) \/ ~ArtifactsOK(m)        THEN "ARTIFACT_RESOLUTION_FAILURE"
  ELSE ""

\* The record Run builds of the canonical fields when no stage refuses them.
Canonical(m0, version, now, late) ==
  LET m    == [m0 EXCEPT !["intent"] = Obj(NormalizeIntent(m0))]
      refs == ResolveArtifacts(m, late)
      cer  == [event_id      |-> getString(m, "event_id"),
               ccnf_version  |-> version,
               domain        |-> getString(m, "domain"),
               timestamp     |-> Stamp(m, now),
               actor         |-> getMap(m, "actor"),
               intent        |-> NormalizeIntent(m0),
               entity_key    |-> DeriveIdentity(m),
               collapse_key  |-> DeriveCollapseKey(m),
               causality     |-> normalizeCausality(m),
               artifact_refs |-> refs,
               state_delta   |-> ComputeStateDeltas(m, refs),
               payload       |-> buildPayload(m)]
  IN Over(cer, [signature |-> ComputeHash(cer)])

Run(v, version, now, late) ==
  LET m   == CanonicalizeFields(v, late)
      err == RunError(v, m, version)
  IN IF err # "" THEN [error |-> err]
     ELSE [error |-> "", cer |-> Canonical(m, version, now, late)]

-----------------------------------------------------------------------------
(* The wire: SerializeCER writes every field, ParseCER reads them back.    *)

SerializeCER(cer) ==
  CanonicalJSON(Obj(Over([signature |-> Obj([hash |-> Digest(cer.signature)])],
                         BuildCERMap(cer))))

\* A member the encoder wrote as null reads as nil or as an empty slice.
ParseCER(w) ==
  LET m  == Members(w)
      id == getMap(m, "identity")
  IN [event_id |-> getString(m, "event_id"), ccnf_version |-> Content(m["ccnf_version"]),
      domain |-> getString(m, "domain"), timestamp |-> Content(m["timestamp"]),
      actor |-> getMap(m, "actor"), intent |-> getMap(m, "intent"),
      entity_key |-> Content(id["entity_key"]),
      collapse_key |-> IF Kind(id["collapse_key"]) = "null" THEN "nil" ELSE Content(id["collapse_key"]),
      causality |-> getMap(m, "causality"),
      artifact_refs |-> IF Kind(m["artifact_refs"]) = "null" THEN <<>> ELSE Content(m["artifact_refs"]),
      state_delta |-> IF Kind(m["state_delta"]) = "null" THEN <<>> ELSE Content(m["state_delta"]),
      payload |-> getMap(m, "payload"),
      signature |-> Content(getMap(m, "signature")["hash"])]
=============================================================================
