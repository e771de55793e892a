------------------------------- MODULE Overlay -------------------------------
(***************************************************************************)
(* The FUSE overlay (internal/fuse/fuse.go) in front of the real file     *)
(* system, with the path rules of the manifest store                      *)
(* (internal/manifest/manifest.go) it enforces.                           *)
(*                                                                         *)
(* A path is the sequence of its segments and so is a pattern, in which   *)
(* "*" and "**" may stand for segments; wildcards inside a segment are    *)
(* left to filepath.Match.  The store is read under its lock once for     *)
(* HasManifest, once for IsPathAllowed and once for Current, and a push   *)
(* can replace the manifest between any two of them.  The mount serves    *)
(* from MountAt on, the store is attached later.                          *)
(*                                                                         *)
(* Only the root has a LoopbackNode that was set up.  The overlayDir of a *)
(* directory checks the policy and then calls a zero one: the nil pointer *)
(* it dereferences ends the agent.  So a walker gets no deeper than the   *)
(* policy check of a lookup below a top-level directory.                  *)
(*                                                                         *)
(* External: the real file system, whose tree is fixed, and the kernel,   *)
(* which keeps a directory's node for as long as a process holds it.      *)
(***************************************************************************)
EXTENDS Integers, Sequences, SequencesExt

CONSTANTS
    Walkers,        \* processes that use the mount
    Names,          \* path segments
    Dirs, Files,    \* the paths of the real tree
    Virtuals,       \* names that Put and PutLazy may be given
    Manifests,      \* filesystem sections that may be pushed: sets of patterns
    NoManifest,     \* store.current = nil
    MaxUpdates      \* bound: how often a manifest is pushed

Wild == {"*", "**"}
Root == <<>>

ASSUME NamesAssumption == Names \cap Wild = {} /\ Virtuals \subseteq Names
ASSUME TreeAssumption == Dirs \cup Files \subseteq Seq(Names) \ {Root}
                            /\ Dirs \cap Files = {}
ASSUME PatternsAssumption ==
    /\ \A m \in Manifests : m \subseteq Seq(Names \cup Wild) \ {<<>>}
    /\ NoManifest \notin Manifests
ASSUME MaxUpdatesAssumption == MaxUpdates \in Nat

VARIABLES
    attached,   \* Overlay.store is set
    current,    \* store.current; fsGlobs is rebuilt under the same lock
    updates,    \* how many manifests were pushed
    virtuals,   \* the keys of Overlay.virtuals
    node,       \* the directory each walker holds: its path, and if it has the store
    req,        \* the request of each walker: the names it still has to decide about
                \* and those it keeps; and the history of what changed meanwhile
    verdict,    \* history: the last policy decision, and the manifests it could see
    crashed     \* the agent died of a nil pointer

vars == <<attached, current, updates, virtuals, node, req, verdict, crashed>>

RootNode == [path |-> Root, store |-> FALSE]    \* the root asks getStore each time
NoRequest == [op |-> "none", pc |-> "idle", store |-> FALSE, todo |-> {}, kept |-> {},
              name |-> "", seen |-> {}, dirty |-> FALSE]
NoVerdict == [passed |-> {}, refused |-> {}, store |-> FALSE, seen |-> {}]

Real == Dirs \cup Files
Children(dir) == {n \in Names : Append(dir, n) \in Real}
-----------------------------------------------------------------------------
(***************************************************************************)
(* The rules.                                                             *)
(***************************************************************************)
\* Mutant of MatchGlob: /** needs something below the prefix.
MatchBelow(pat, path) ==
    \/ pat = path
    \/ IF Last(pat) = "**" THEN IsStrictPrefix(Front(pat), path)
       ELSE IF Last(pat) = "*" THEN IsPrefix(Front(pat), path) /\ Len(path) = Len(pat)
       ELSE Len(path) = Len(pat) /\ \A i \in DOMAIN pat : pat[i] \in {path[i]} \cup Wild

\* matchGlob: a trailing wildcard is looked at first and what precedes it is then
\* taken literally; filepath.Match reads both wildcards as part of one segment.
MatchGlob(pat, path) ==
    \/ pat = path
    \/ IF Last(pat) = "**" THEN IsPrefix(Front(pat), path)
       ELSE IF Last(pat) = "*" THEN IsPrefix(Front(pat), path) /\ Len(path) = Len(pat)
       ELSE Len(path) = Len(pat) /\ \A i \in DOMAIN pat : pat[i] \in {path[i]} \cup Wild

IsPathAllowed(m, path) == m = NoManifest \/ \E pat \in m : MatchGlob(pat, path)

\* The loop of isPathOrPrefixAllowed: some pattern's text goes on after path/.
LeadsTo(m, path) == m = NoManifest \/ \E pat \in m : IsStrictPrefix(path, pat)

\* isPathOrPrefixAllowed, if nothing is pushed meanwhile.
Permits(m, path) == IsPathAllowed(m, path) \/ LeadsTo(m, path)
-----------------------------------------------------------------------------
Paths == Seq(Names)
Request == [op : {"none", "lookup", "readdir", "listed"},
            pc : {"idle", "policy", "match", "prefix"}, store : BOOLEAN,
            todo : SUBSET Names, kept : SUBSET Names, name : Names \cup {""},
            seen : SUBSET (Manifests \cup {NoManifest}), dirty : BOOLEAN]
Decision == [passed : SUBSET Paths, refused : SUBSET Paths, store : BOOLEAN,
             seen : SUBSET (Manifests \cup {NoManifest})]

TypeOK ==
    /\ attached \in BOOLEAN /\ current \in Manifests \cup {NoManifest}
    /\ updates \in 0..MaxUpdates /\ virtuals \subseteq Virtuals
    /\ crashed \in BOOLEAN
    /\ node \in [Walkers -> [path : Dirs \cup {Root}, store : BOOLEAN]]
    /\ req \in [Walkers -> Request] /\ verdict \in [Walkers -> Decision]
    /\ \A w \in Walkers :
          /\ req[w].op \in {"none", "listed"} <=> req[w].pc = "idle"
          /\ req[w].pc = "prefix" => req[w].name \in req[w].todo
          /\ req[w].op = "lookup" => \E n \in Names : req[w].todo \cup req[w].kept \subseteq {n}

Init ==
    /\ attached = FALSE /\ current = NoManifest /\ updates = 0 /\ virtuals = {}
    /\ crashed = FALSE
    /\ node = [w \in Walkers |-> RootNode]
    /\ req = [w \in Walkers |-> NoRequest]
    /\ verdict = [w \in Walkers |-> NoVerdict]

\* History: what a change means for requests under way and for answers given.
Notice(m) == req' = [w \in Walkers |->
                       [req[w] EXCEPT !.dirty = TRUE,
                                      !.seen = IF req[w].pc = "idle" THEN @ ELSE @ \cup {m}]]

\* SetStore, which main.go calls after MountAt.
SetStore ==
    /\ ~attached /\ attached' = TRUE
    /\ Notice(current)
    /\ UNCHANGED <<current, updates, virtuals, node, verdict>>

\* Store.Update, as far as paths are concerned; served once boot is over.
Update(m) ==
    /\ attached /\ updates < MaxUpdates
    /\ current' = m /\ updates' = updates + 1
    /\ Notice(m)
    /\ UNCHANGED <<attached, virtuals, node, verdict>>

\* Put and PutLazy: the file is there at once.
Put(n) ==
    /\ n \notin virtuals /\ virtuals' = virtuals \cup {n}
    /\ Notice(current)
    /\ UNCHANGED <<attached, current, updates, node, verdict>>

RemoveVirtual(n) ==
    /\ n \in virtuals /\ virtuals' = virtuals \ {n}
    /\ Notice(current)
    /\ UNCHANGED <<attached, current, updates, node, verdict>>
-----------------------------------------------------------------------------
(***************************************************************************)
(* Lookup and Readdir, of the root and, up to its LoopbackNode, of an     *)
(* overlayDir.                                                            *)
(***************************************************************************)
AtRoot(w) == node[w].path = Root
Child(w, n) == Append(node[w].path, n)

Begin(w, op, names) ==
    req' = [req EXCEPT ![w] = [NoRequest EXCEPT !.op = op, !.pc = "policy",
                                                !.todo = names, !.seen = {current}]]

\* The virtual files come first, at the root only; they are not under the policy.
Lookup(w, n) ==
    /\ req[w].pc = "idle"
    /\ IF AtRoot(w) /\ n \in virtuals
       THEN req' = [req EXCEPT ![w] = NoRequest]
       ELSE Begin(w, "lookup", {n})
    /\ UNCHANGED <<attached, current, updates, virtuals, node, verdict>>

\* All real entries are read first.
Readdir(w) ==
    /\ req[w].pc = "idle" /\ AtRoot(w)
    /\ Begin(w, "readdir", Children(node[w].path))
    /\ UNCHANGED <<attached, current, updates, virtuals, node, verdict>>

\* A call of the LoopbackNode of an overlayDir.
NilPointer(w) ==
    /\ ~AtRoot(w) /\ crashed' = TRUE
    /\ UNCHANGED <<attached, current, updates, virtuals, node, req, verdict>>

\* overlayDir.Readdir, and the methods overlayDir inherits.
ReaddirBelow(w) == req[w].pc = "idle" /\ NilPointer(w)

\* The root asks getStore; a directory has what its own Lookup found.
HasStore(w) == IF AtRoot(w) THEN attached ELSE node[w].store

\* History: what a request passed and what it refused, and when.
Verdict(w, passed, refused) ==
    [passed |-> {Child(w, n) : n \in passed}, refused |-> {Child(w, n) : n \in refused},
     store |-> HasStore(w), seen |-> req[w].seen]

\* Mutant of Enforced: the policy ends at the root.
EnforcedAtRoot(w) == AtRoot(w) /\ HasStore(w) /\ current # NoManifest

\* store != nil && store.HasManifest()
Enforced(w) == HasStore(w) /\ current # NoManifest

\* Without a store or a manifest every name passes.
CheckPolicy(w) ==
    /\ req[w].pc = "policy"
    /\ req' = [req EXCEPT ![w].store = HasStore(w), ![w].pc = "match",
                          ![w].todo = IF Enforced(w) THEN @ ELSE {},
                          ![w].kept = IF Enforced(w) THEN {} ELSE req[w].todo]
    /\ verdict' = [verdict EXCEPT ![w] = IF Enforced(w) THEN NoVerdict
                                         ELSE Verdict(w, req[w].todo, {})]
    /\ UNCHANGED <<attached, current, updates, virtuals, node>>

\* The decision about a name, after which the next one is looked at.
Decide(w, n, ok) ==
    /\ req' = [req EXCEPT ![w].pc = "match", ![w].todo = @ \ {n},
                          ![w].kept = IF ok THEN @ \cup {n} ELSE @]
    /\ verdict' = [verdict EXCEPT ![w] = IF ok THEN Verdict(w, {n}, {})
                                         ELSE Verdict(w, {}, {n})]

\* isPathOrPrefixAllowed, the call of IsPathAllowed.
MatchPath(w, n) ==
    /\ req[w].pc = "match" /\ n \in req[w].todo
    /\ IF IsPathAllowed(current, Child(w, n))
       THEN Decide(w, n, TRUE)
       ELSE /\ req' = [req EXCEPT ![w].pc = "prefix", ![w].name = n]
            /\ UNCHANGED verdict
    /\ UNCHANGED <<attached, current, updates, virtuals, node>>

\* isPathOrPrefixAllowed, from the call of Current on.
MatchPrefix(w) ==
    /\ req[w].pc = "prefix"
    /\ Decide(w, req[w].name, LeadsTo(current, Child(w, req[w].name)))
    /\ UNCHANGED <<attached, current, updates, virtuals, node>>

Decided(w, op) == req[w].pc = "match" /\ req[w].todo = {} /\ req[w].op = op

\* The real file system finds a directory, which is wrapped with the store.
Enter(w, n) ==
    /\ Decided(w, "lookup") /\ AtRoot(w)
    /\ n \in req[w].kept /\ Child(w, n) \in Dirs
    /\ node' = [node EXCEPT ![w] = [path |-> Child(w, n), store |-> req[w].store]]
    /\ req' = [req EXCEPT ![w] = NoRequest]
    /\ UNCHANGED <<attached, current, updates, virtuals, verdict>>

\* ENOENT, or a file.
EndLookup(w) ==
    /\ Decided(w, "lookup")
    /\ \A n \in req[w].kept : AtRoot(w) /\ Child(w, n) \notin Dirs
    /\ req' = [req EXCEPT ![w] = NoRequest]
    /\ UNCHANGED <<attached, current, updates, virtuals, node, verdict>>

\* overlayDir.Lookup of a name that the policy lets pass.
LookupBelow(w) == Decided(w, "lookup") /\ req[w].kept # {} /\ NilPointer(w)

\* Mutant of Merged: a virtual file gives way to a real one that was filtered out.
MergedUnfiltered(w) == req[w].kept \cup (virtuals \ Children(Root))

\* The virtual entries whose name no kept real entry has.
Merged(w) == req[w].kept \cup virtuals

EndReaddir(w) ==
    /\ Decided(w, "readdir")
    /\ req' = [req EXCEPT ![w].op = "listed", ![w].pc = "idle",
                          ![w].kept = Merged(w)]
    /\ UNCHANGED <<attached, current, updates, virtuals, node, verdict>>

\* The walker lets go of its directory and begins at the root again.
Forget(w) ==
    /\ req[w].pc = "idle" /\ ~AtRoot(w)
    /\ node' = [node EXCEPT ![w] = RootNode]
    /\ req' = [req EXCEPT ![w] = NoRequest]
    /\ UNCHANGED <<attached, current, updates, virtuals, verdict>>
-----------------------------------------------------------------------------
Agent ==
    \/ SetStore
    \/ \E m \in Manifests : Update(m)
    \/ \E n \in Virtuals : Put(n) \/ RemoveVirtual(n)

Walk(w) ==
    \/ \E n \in Names : Lookup(w, n) \/ MatchPath(w, n) \/ Enter(w, n)
    \/ Readdir(w) \/ CheckPolicy(w) \/ MatchPrefix(w)
    \/ EndLookup(w) \/ EndReaddir(w) \/ Forget(w)

Next ==
    /\ ~crashed
    /\ \/ UNCHANGED crashed /\ (Agent \/ \E w \in Walkers : Walk(w))
       \/ \E w \in Walkers : ReaddirBelow(w) \/ LookupBelow(w)

Spec == Init /\ [][Next]_vars
-----------------------------------------------------------------------------
(***************************************************************************)
(* Properties.                                                            *)
(***************************************************************************)
\* A name that the policy lets pass, at the root or below a directory that was
\* entered under an earlier manifest, is permitted by one of the manifests that were
\* current during the request, although the decision reads the store up to three
\* times and a push may come between (fuse.go:128-133, 220-224, 278-299).  The one
\* exception is a directory entered before the store was attached (fuse.go:142).
PermitsAreTrue ==
    \A w \in Walkers : verdict[w].store =>
        \A path \in verdict[w].passed : \E m \in verdict[w].seen : Permits(m, path)

\* fuse.go:275 says "isPathOrPrefixAllowed returns true if the path itself is
\* allowed, or if it's a prefix of an allowed path": it returns false only if one of
\* the manifests that were current during the request does not permit the path.
DenialsAreTrue ==
    \A w \in Walkers :
        \A path \in verdict[w].refused : \E m \in verdict[w].seen : ~Permits(m, path)

\* A listing of the mount's root and a lookup of each name there agree as long as
\* nothing changes, for virtual files that hide real ones, denied ones too, before
\* and after the store is attached (fuse.go:110-201).
ListsWhatItFinds ==
    \A w \in Walkers :
        (req[w].op = "listed" /\ ~req[w].dirty) =>
            req[w].kept =
                {n \in Names :
                    \/ n \in virtuals
                    \/ /\ Child(w, n) \in Real
                       /\ HasStore(w) => Permits(current, Child(w, n))}

\* A pattern whose only wildcard is its last segment.
Plain(pat) == \A i \in 1..(Len(pat) - 1) : pat[i] \notin Wild

\* A pattern that is plain, or has only single-segment wildcards before a name.
Supported(pat) == Plain(pat) \/ (Last(pat) \notin Wild /\ \A i \in DOMAIN pat : pat[i] # "**")

\* What a pattern denotes: a split of the path in which "**" takes any number of
\* segments, "*" one, and a name itself.
Denotes(pat, path) ==
    \E cut \in [0..Len(pat) -> 0..Len(path)] :
        /\ cut[0] = 0 /\ cut[Len(pat)] = Len(path)
        /\ \A i \in DOMAIN pat :
              IF pat[i] = "**" THEN cut[i] >= cut[i - 1]
              ELSE cut[i] = cut[i - 1] + 1 /\ pat[i] \in {"*", path[cut[i]]}

\* matchGlob computes what a supported pattern denotes (manifest.go:160-193).
GlobsMatch ==
    current # NoManifest =>
        \A pat \in current, path \in Real :
            Supported(pat) => (MatchGlob(pat, path) <=> Denotes(pat, path))

\* The policy lets every directory on the way to a path that a plain pattern allows
\* pass (fuse.go:275-299).
Traversable ==
    current # NoManifest =>
        \A path \in Real :
            (\E pat \in current : Plain(pat) /\ MatchGlob(pat, path))
                => \A k \in 1..(Len(path) - 1) : Permits(current, SubSeq(path, 1, k))
=============================================================================
