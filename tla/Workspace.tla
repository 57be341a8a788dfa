----------------------------- MODULE Workspace -----------------------------
(***************************************************************************)
(* The workspace (internal/workspace): for each object that is presented a *)
(* directory with its files, links to its sources, and a pointer file in   *)
(* .vit/workspace that leads from the one to the other.  The pointer makes *)
(* an object presented for all others, so it is written last; of a commit, *)
(* that is, as the sources of a branch change with it.                     *)
(*                                                                         *)
(* What is linked, and when, is the matter of the commands (DepGraph).     *)
(***************************************************************************)
EXTENDS Functions

VARIABLES
    pointed,   \* the objects that have a pointer
    links      \* of each object's directory, the links: names and targets

workspaceVars == <<pointed, links>>

NoLinks          == [n \in {} |-> {}]
LinkTo(f, n, r)  == [m \in DOMAIN f \cup {n} |-> IF m = n THEN r ELSE f[m]]
Unlinked(f, n)   == Restrict(f, DOMAIN f \ {n})

\* Every object of S as `add` presents it: without sources.
InitWorkspace(S) ==
    /\ pointed = S
    /\ links = [r \in S |-> NoLinks]

\* aliasSources of one source: what is presented under its name is removed,
\* and its target, if it has a pointer, is linked there.  The other ones link
\* what has none, and keep what is there.
AliasAnyway(r, n, target) ==
    /\ links' = [links EXCEPT ![r] = LinkTo(@, n, target)]
    /\ UNCHANGED pointed

AliasOver(r, n, target) ==
    /\ target \in pointed
    /\ links' = [links EXCEPT ![r] = IF n \in DOMAIN @ THEN @ ELSE LinkTo(@, n, target)]
    /\ UNCHANGED pointed

Alias(r, n, target) ==
    /\ target \in pointed
    /\ links' = [links EXCEPT ![r] = LinkTo(@, n, target)]
    /\ UNCHANGED pointed

\* The target has no pointer: an error, after the old link is gone.
AliasRefused(r, n, target) ==
    /\ target \notin pointed
    /\ links' = [links EXCEPT ![r] = Unlinked(@, n)]
    /\ UNCHANGED pointed

\* os.Symlink fails, or the process dies, before or after the removal.
AliasFails(r, n) ==
    /\ \/ links' = links
       \/ links' = [links EXCEPT ![r] = Unlinked(@, n)]
    /\ UNCHANGED pointed

\* presentFromContentNode: the files, in a directory of their own.
PresentFiles(r) ==
    /\ links' = LinkTo(links, r, NoLinks)
    /\ UNCHANGED pointed

WritePointer(r) ==
    /\ pointed' = pointed \cup {r}
    /\ UNCHANGED links
=============================================================================
