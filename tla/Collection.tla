----------------------------- MODULE Collection -----------------------------
(***************************************************************************)
(* A MongoDB collection as the services use it through mongoose: documents *)
(* with an _id (oid), a unique key, the version counter that               *)
(* optimisticConcurrency maintains, and the fields a handler writes        *)
(* (body).  Every call is one atomic step of the database.                 *)
(***************************************************************************)
EXTENDS Naturals

Document(Keys, Bodies) ==
    [oid : Nat, key : Keys, version : Nat, body : Bodies]

WithKey(docs, key) == {d \in docs : d.key = key}

\* save() of a new document: the version key starts at 0 whatever was given.
Inserted(docs, oid, key, body) ==
    docs \cup {[oid |-> oid, key |-> key, version |-> 0, body |-> body]}

\* What a handler keeps of a document it has read, until it saves it.
Handle     == [oid : Nat, version : Nat]
NoHandle   == [oid |-> 0, version |-> 0]
Handled(d) == [oid |-> d.oid, version |-> d.version]

\* save() of a document that was read: updateOne({_id, version}, $inc), which
\* matches nothing once the document has been saved by another or deleted.
Unmoved(docs, h) == {d \in docs : d.oid = h.oid /\ d.version = h.version}

Updated(docs, d, body) ==
    (docs \ {d}) \cup {[oid |-> d.oid, key |-> d.key,
                         version |-> d.version + 1, body |-> body]}

\* findOneAndDelete
Removed(docs, key) == docs \ WithKey(docs, key)
=============================================================================
