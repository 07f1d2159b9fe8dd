----------------------------- MODULE HookManifest -----------------------------
(***************************************************************************)
(* Package hook: which manifest a post-assert hook tests, from the name it *)
(* was invoked under and the files below examples/.  A slug is the         *)
(* sequence of its parts between hyphens, the first of them not empty; a   *)
(* manifest is <<directory, leaf>>, both slugs, without the .yaml.         *)
(***************************************************************************)
EXTENDS Naturals, Sequences

CONSTANTS
  files,  \* the regular files, <<directory, leaf>>
  dirs    \* the directories

Slugs == {s \in Seq(STRING) : s # <<>> /\ s[1] # ""}
NotFound == <<>>
AllButLast(slug) == SubSeq(slug, 1, Len(slug) - 1)
HasSuffix(slug, part) == Len(slug) > 1 /\ slug[Len(slug)] = part

\* Does the slug's last part name a scope?  A resource of its own wins over the shorthand.
IsScoped(slug) == HasSuffix(slug, "namespaced") \/ (HasSuffix(slug, "ns") /\ slug \notin dirs)
manifestPath(resource, leaf) == <<resource, leaf>>
(* primaryPath: the resource a slug denotes, and the leaf. *)
primaryPath(slug) ==
  IF IsScoped(slug) THEN manifestPath(AllButLast(slug), Append(AllButLast(slug), "namespaced"))
  ELSE manifestPath(slug, slug)

\* How many parts of the resource's name a directory with this leaf may have.
Hits(resource, leaf) ==
  {n \in 1..Len(resource) : manifestPath(SubSeq(resource, 1, n), leaf) \in files}
(* Derive: the primary path or else the nearest of the shorter directories. *)
Derive(slug) ==
  LET p == primaryPath(slug)
      hits == Hits(p[1], p[2])
  IN IF hits = {} THEN NotFound
     ELSE manifestPath(SubSeq(p[1], 1, CHOOSE n \in hits : \A m \in hits : m <= n), p[2])
=============================================================================
