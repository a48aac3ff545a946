------------------------------ MODULE ClusterApi ------------------------------
(***************************************************************************)
(* The calls nfctl makes on Numaflow's resources through                   *)
(* nfctl-k8s/src/cluster.rs, and what the API server does with them.  A    *)
(* store is a function from the keys of the objects that exist to the wire *)
(* objects (Manifest).  A reading call returns [err, value], a writing     *)
(* call [err, store]; a dry run leaves the store as it was.                *)
(***************************************************************************)
EXTENDS Manifest

Fail(e) == [err |-> e, value |-> None]
Found(v) == [err |-> "none", value |-> v]
Checked(v) == IF v = Invalid THEN Fail("Invalid") ELSE Found(v)

(* list_*: every object in scope, or the first one that does not convert   *)
(* fails the whole list.  scope is None for all namespaces.                *)
ScopedKeys(store, scope) == {key \in DOMAIN store : scope \in {None, key[2]}}
List(converted) == IF Invalid \in converted THEN Fail("Invalid") ELSE Found(converted)
(* Faulty variant: an object that does not convert is left out. *)
ListPipelinesThatConvert(store, scope) ==
  Found({IntoPipeline(store[k]) : k \in ScopedKeys(store, scope)} \ {Invalid})
ListPipelines(store, scope) == List({IntoPipeline(store[k]) : k \in ScopedKeys(store, scope)})
ListMonoVertices(store, scope) == List({IntoMonoVertex(store[k]) : k \in ScopedKeys(store, scope)})
ListIsb(store, scope) == List({IntoIsb(store[k]) : k \in ScopedKeys(store, scope)})

(* get_*: map_kube turns the server's 404 into NotFound. *)
GetPipeline(store, key) ==
  IF key \in DOMAIN store THEN Checked(IntoPipeline(store[key])) ELSE Fail("NotFound")
GetMonoVertex(store, key) ==
  IF key \in DOMAIN store THEN Checked(IntoMonoVertex(store[key])) ELSE Fail("NotFound")

(***************************************************************************)
(* Writes.                                                                 *)
(***************************************************************************)
Wrote(store, dryRun, new) == [err |-> "none", store |-> IF dryRun THEN store ELSE new]
Refused(store, e) == [err |-> e, store |-> store]

(* set_lifecycle: a merge patch of the desired phase and, when a strategy  *)
(* is given, of the annotation; no other field is sent.                    *)
(* Faulty variant: the server is not told that it is a dry run.            *)
SetLifecycleForReal(store, key, desired, resume, dryRun) ==
  IF key \notin DOMAIN store THEN Refused(store, "NotFound")
  ELSE Wrote(store, FALSE, [store EXCEPT ![key].desired_phase = desired,
                                         ![key].resume = IF resume = None THEN @ ELSE resume])
SetLifecycle(store, key, desired, resume, dryRun) ==
  IF key \notin DOMAIN store THEN Refused(store, "NotFound")
  ELSE Wrote(store, dryRun,
             [store EXCEPT ![key].desired_phase = desired,
                           ![key].resume = IF resume = None THEN @ ELSE resume])

(* set_monovertex_lifecycle: resuming also clears replicas.                *)
SetMonoVertexLifecycle(store, key, desired, dryRun) ==
  IF key \notin DOMAIN store THEN Refused(store, "NotFound")
  ELSE Wrote(store, dryRun,
             [store EXCEPT ![key].desired_phase = desired,
                           ![key].spec_replicas = IF desired = "Running" THEN None ELSE @])

(***************************************************************************)
(* apply_manifest sends the user's document as it is, as the field manager *)
(* nfctl and with force.  The server takes the fields the document has,    *)
(* drops those that nfctl applied before and the document no longer has,   *)
(* and leaves every other field alone.                                     *)
(***************************************************************************)
Present(doc) == {f \in DOMAIN doc : doc[f] # None}
Merge(old, doc, owned) ==
  [f \in DOMAIN doc |->
     IF doc[f] # None THEN doc[f] ELSE IF f \in owned THEN None ELSE old[f]]

(* The document with the namespace of the command when it names none: the  *)
(* object and the key it is sent to, or Invalid.                           *)
Addressed(text, defaultNs) ==
  LET o == ParsePipelineObject(text)
      doc == [o EXCEPT !.namespace = Or(@, defaultNs)]
  IN IF o = Invalid \/ IntoPipeline(doc) = Invalid THEN Invalid ELSE doc
KeyOf(doc) == <<"Pipeline", doc.namespace, doc.name>>

(* Faulty variant: what is sent has gone through the domain types and has  *)
(* their defaults where the document says nothing.                         *)
ApplyRoundTrip(store, doc, owned, dryRun) ==
  LET key == KeyOf(doc)
      sent == [doc EXCEPT !.desired_phase = Or(@, "Running"), !.isb = Or(@, "default")]
      new == IF key \in DOMAIN store THEN Merge(store[key], sent, owned) ELSE sent
  IN [err |-> "none",
      store |-> Wrote(store, dryRun, [k \in DOMAIN store \cup {key} |->
                                        IF k = key THEN new ELSE store[k]]).store]
ApplyManifest(store, doc, owned, dryRun) ==
  LET key == KeyOf(doc)
      new == IF key \in DOMAIN store THEN Merge(store[key], doc, owned) ELSE doc
      done == Wrote(store, dryRun, [k \in DOMAIN store \cup {key} |->
                                      IF k = key THEN new ELSE store[k]])
  IN [err |-> IF IntoPipeline(new) = Invalid THEN "Invalid" ELSE "none",
      store |-> done.store]
=============================================================================
