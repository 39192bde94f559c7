----------------------------- MODULE MCContent ------------------------------
(* Two intents of two and one bytes, two multipart uploads of the first    *)
(* and two service calls; two administrators who change the feature and a  *)
(* quota.                                                                  *)
EXTENDS Content, TLC

CONSTANTS f1, f2, m1, m2, c1, c2

MCQuotas == {"files_per_tenant", "file_bytes_per_tenant", "single_file_bytes",
             "file_upload_intents_per_hour"}
MCDefaultLimit == [q \in MCQuotas |-> 3]
MCCeiling == [q \in MCQuotas |->
                IF q = "file_upload_intents_per_hour" THEN 1 ELSE 3]
MCSize == f1 :> 2 @@ f2 :> 1
MCMultiFile == [m \in {m1, m2} |-> f1]

(* While the overrides stand at their defaults, two calls and the uploads  *)
(* in parts meet on f1; while they change, one call at a time finalizes    *)
(* either file; the enrollment changes before there are files.             *)
Bounded ==
    /\ \/ /\ controls = NoOverrides
          /\ file[f2].status = "none"
          /\ Cardinality({m \in Multis : multi[m].parts # <<>>}) <= 1
       \/ /\ \A m \in Multis : provider[m] = "none"
          /\ \A c \in Calls : call[c].op \in {"none", "finalize"}
          /\ Cardinality({c \in Calls : call[c] # Idle}) <= 1
          /\ Cardinality(objects[f1] \cup objects[f2]) <= 1
          /\ access
    /\ alpha.revision = 0 \/ \A f \in Files : file[f].status = "none"

(* The uploads and the calls are interchangeable.                          *)
Symmetric == Permutations({m1, m2}) \cup Permutations({c1, c2})
=============================================================================
