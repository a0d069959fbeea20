--------------------------- MODULE GovernedEvidence ---------------------------
(***************************************************************************)
(* Evidence on its way from a provider to the snapshot store: the file     *)
(* provider of packages/provider-json proposes snapshots, an application   *)
(* puts them, or what it made of them, into a batch, and                   *)
(* commitGovernedEvidenceSnapshots of packages/evidence validates, hashes  *)
(* and inserts the batch.  (LoopEngine has the transition around it.)      *)
(*                                                                         *)
(* A text field is Missing (absent or blank) or some value; a timestamp    *)
(* may be unparsable.  The semantic values are one value, whose canonical  *)
(* hash tells it from all others; some values cannot be canonicalized.     *)
(* The optional parts are the names of those that are there in a form they *)
(* must not have; freshness names what is wrong with it.  An error is its  *)
(* code.                                                                   *)
(***************************************************************************)
EXTENDS Integers, Sequences, FiniteSets, SequencesExt

CONSTANTS
  Entries,      \* snapshots that a provider's catalog may hold
  Keys,         \* snapshot keys
  Contents,     \* semantic values
  Uncanonical,  \* those with NaN, undefined, a lone surrogate ...
  MaxBatch, MaxEvidenceCommits,   \* bounds
  Missing,
  Malformed     \* a contentSha256 that is not 64 hex digits

EntryFields ==
  {"key", "system", "at", "by", "values", "versions", "lineage", "sequence", "hash", "qualification",
   "optional"}

(* The last part: what is absent is no id and no hash.                     *)
ASSUME EvidenceAssumption ==
  /\ Uncanonical \subseteq Contents
  /\ MaxBatch \in Nat /\ MaxEvidenceCommits \in Nat
  /\ \A e \in Entries : DOMAIN e = EntryFields /\ e.values \in Contents \cup {Missing}
  /\ Missing \notin Contents /\ Missing \notin Keys
  /\ Missing \notin Nat \X Nat /\ Missing \notin {"sha256"} \X Contents

VARIABLES
  snapshotStore,  \* params.snapshotStore is there
  proposals,      \* snapshots that the provider proposed
  commit,         \* the commit in flight, or the last one
  rows,           \* commits whose rows are in the snapshot store
  commits         \* commits so far

evidenceVars == <<snapshotStore, proposals, commit, rows, commits>>

NoCommit == [stage |-> "none", batch |-> <<>>, persisted |-> <<>>, reason |-> "none"]

EvidenceInit ==
  /\ snapshotStore \in BOOLEAN
  /\ proposals = {}
  /\ commit = NoCommit
  /\ rows = {}
  /\ commits = 0

-----------------------------------------------------------------------------
(* canonical-json and the content hash.                                    *)

(* assertCanonicalizable.                                                  *)
Canonicalizable(v) == v \notin Uncanonical

(* sha256CanonicalHex: one hash for each value, whatever the order of keys.*)
ContentHash(v) == <<"sha256", v>>

IsHash(h) == \E v \in Contents : h = ContentHash(v)

-----------------------------------------------------------------------------
(* The validators.                                                         *)

Code(bad, code) == IF bad THEN {code} ELSE {}

VersionErrors(s) ==
  IF s.versions = Missing THEN {"invalid_versions"}
  ELSE Code(s.versions.decisionRecord # 1, "unsupported_decision_record_version")
       \cup Code(s.versions.invariant # 1, "unsupported_invariant_version")
       \cup Code(s.versions.canonical # 1, "unsupported_canonical_version")

TextFields == {"key", "system", "at", "by"}

LineageErrors(s) ==
  Code(\E i \in DOMAIN s.lineage : s.lineage[i].kind \notin {"source", "derived-input"}, "invalid_lineage_kind")
  \cup Code(\E i \in DOMAIN s.lineage : s.lineage[i].ref = Missing, "missing_lineage_ref")

CommitErrors(s) ==
  Code(\E f \in TextFields : s[f] = Missing, "missing_provenance")
  \cup Code(s.at = "unparsable", "invalid_captured_at")
  \cup Code(s.values = Missing, "invalid_values")
  \cup VersionErrors(s)
  \cup LineageErrors(s)
  \cup Code(s.sequence # Missing /\ s.sequence < 0, "invalid_sequence")
  \cup Code(s.hash # Missing /\ ~IsHash(s.hash), "invalid_content_sha256")

RepeatedKey(batch) ==
  \E i, j \in DOMAIN batch : i < j /\ batch[i].key = batch[j].key /\ batch[i].key # Missing

BatchErrors(batch) ==
  (UNION {CommitErrors(batch[i]) : i \in DOMAIN batch})
  \cup Code(RepeatedKey(batch), "duplicate_snapshot_key")

PersistedErrors(r) ==
  IF CommitErrors(r) # {} THEN CommitErrors(r)
  ELSE Code(r.id = Missing, "missing_snapshot_id") \cup Code(~IsHash(r.hash), "missing_content_sha256")

(* Validation of a proposal; it looks at less than the commit does.        *)
ProvenanceOrder == <<"unknown", "system-attested", "origin-attested">>
DefinitionOrder == <<"not-applicable", "unreviewed", "certified", "governed">>

QualificationErrors(q) ==
  Code(~Contains(ProvenanceOrder, q.provenance), "invalid_provenance_rung")
  \cup Code(~Contains(DefinitionOrder, q.definition), "invalid_definition_rung")
  \cup Code(q.freshness \in {"undated", "not frozen"}, "missing_snapshot_frozen_at")
  \cup Code(q.freshness \in {"undated", "no value date"}, "missing_value_as_of")
  \cup Code(q.freshness \notin {"not-applicable", "applicable", "undated", "not frozen", "no value date"},
            "invalid_freshness_applicable")

OptionalErrors(s) ==
  Code("measurements" \in s.optional, "invalid_measurements")
  \cup Code("nativeMetadata" \in s.optional, "invalid_native_metadata")
  \cup Code("version" \in s.optional, "invalid_version_constraint")
  \cup Code("version.kind" \in s.optional, "invalid_version_kind")

ProposedErrors(s) ==
  Code(\E f \in TextFields : s[f] = Missing, "missing_field")
  \cup Code(s.values = Missing, "invalid_values")
  \cup VersionErrors(s)
  \cup QualificationErrors(s.qualification)
  \cup OptionalErrors(s)

-----------------------------------------------------------------------------
(* createJsonEvidenceProvider, snapshot(): the entry under a key and a     *)
(* time of the caller's, with the hash of the entry's values.  A proposal  *)
(* that is not valid, and values without a canonical form, throw.          *)

Proposal(entry, key, at) ==
  [entry EXCEPT !.key = IF key = Missing THEN entry.key ELSE key,
                !.at = IF at = Missing THEN entry.at ELSE at,
                !.by = "caller",
                !.hash = ContentHash(entry.values)]

Propose(entry, key, at) ==
  /\ commit = NoCommit
  /\ Canonicalizable(entry.values)
  /\ ProposedErrors(Proposal(entry, key, at)) = {}
  /\ proposals' = proposals \cup {Proposal(entry, key, at)}
  /\ Cardinality(proposals') <= MaxBatch
  /\ UNCHANGED <<snapshotStore, commit, rows, commits>>

(* What an application may submit for a proposal: the proposal, its values *)
(* edited under the old hash, without the hash, or with a field spoilt.    *)
Submissions(p) ==
  {p, [p EXCEPT !.hash = Missing], [p EXCEPT !.hash = Malformed]}
  \cup {[p EXCEPT !.values = v] : v \in Contents \cup {Missing}}
  \cup {[p EXCEPT !.values = v, !.hash = Missing] : v \in Contents}
  \cup {[p EXCEPT !.sequence = -1], [p EXCEPT !.versions = Missing], [p EXCEPT !.system = Missing]}

Batches == UNION {[1..n -> UNION {Submissions(p) : p \in proposals}] : n \in 0..MaxBatch}

-----------------------------------------------------------------------------
(* commitGovernedEvidenceSnapshots, up to the insert.                      *)

(* Mutant: the hash that came with a snapshot is not compared.             *)
HashMismatchIgnored(s) == s.hash = Malformed

HashMismatch(s) == s.hash # Missing /\ s.hash # ContentHash(s.values)

CommitRefusal(batch) ==
  IF batch = <<>> THEN "evidence_required"
  ELSE IF \/ BatchErrors(batch) # {}
          \/ \E i \in DOMAIN batch : ~Canonicalizable(batch[i].values) \/ HashMismatch(batch[i])
       THEN "invalid_evidence_snapshot"
  ELSE IF ~snapshotStore THEN "snapshot_store_required"
  ELSE "none"

Persisted(batch) ==
  [i \in DOMAIN batch |->
     [f \in DOMAIN batch[i] \cup {"id"} |->
        CASE f = "id" -> <<commits + 1, i>>
          [] f = "hash" -> ContentHash(batch[i].values)
          [] OTHER -> batch[i][f]]]

Commit(batch) ==
  /\ commit.stage # "inserting"
  /\ commits < MaxEvidenceCommits
  /\ commits' = commits + 1
  /\ LET reason == CommitRefusal(batch)
     IN commit' = IF reason = "none"
                  THEN [stage |-> "inserting", batch |-> batch, persisted |-> Persisted(batch), reason |-> "none"]
                  ELSE [stage |-> "refused", batch |-> batch, persisted |-> <<>>, reason |-> reason]
  /\ UNCHANGED <<snapshotStore, proposals, rows>>

(* insertSnapshots of the consumer's store; its rejection rejects the      *)
(* commit, whether the rows are there or not.                              *)
Insert ==
  /\ commit.stage = "inserting"
  /\ rows' = rows \cup {[batch |-> commit.batch, persisted |-> commit.persisted]}
  /\ \E stage \in {"committed", "rejected"} : commit' = [commit EXCEPT !.stage = stage]
  /\ UNCHANGED <<snapshotStore, proposals, commits>>

InsertFails ==
  /\ commit.stage = "inserting"
  /\ commit' = [commit EXCEPT !.stage = "rejected"]
  /\ UNCHANGED <<snapshotStore, proposals, rows, commits>>

EvidenceNext ==
  \/ \E e \in Entries, k \in Keys \cup {Missing}, a \in {Missing, "dated", "unparsable"} : Propose(e, k, a)
  \/ \E b \in Batches : Commit(b)
  \/ Insert \/ InsertFails

EvidenceSpec == EvidenceInit /\ [][EvidenceNext]_evidenceVars

-----------------------------------------------------------------------------

(* What the store holds is valid, under its own hash and, within a commit, *)
(* under a key of its own; a hash that came with a snapshot is the one it  *)
(* is stored under, so values edited after the provider proposed them do   *)
(* not pass for the proposal; and an acknowledged commit is in the store.  *)
StoredEvidenceIsSound ==
  /\ \A c \in rows : \A i \in DOMAIN c.persisted :
       /\ PersistedErrors(c.persisted[i]) = {}
       /\ c.persisted[i].hash = ContentHash(c.persisted[i].values)
       /\ c.batch[i].hash \in {Missing, c.persisted[i].hash}
       /\ \A j \in DOMAIN c.persisted \ {i} : c.persisted[i].key # c.persisted[j].key
       /\ \A p \in proposals : c.batch[i].hash = p.hash => c.persisted[i].values = p.values
  /\ commit.stage = "committed" =>
       \E c \in rows : c.persisted = commit.persisted
=============================================================================
