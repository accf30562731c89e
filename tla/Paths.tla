-------------------------------- MODULE Paths --------------------------------
(***************************************************************************)
(* From the path of a request to a file of the slave: path.c, and the      *)
(* functions of utils.c and response.c that open, make and remove what a   *)
(* path leads to.  Two functions resolve: Existing, by realpath, for a     *)
(* get and an rm, and New, by hand, for a put, whose file may not be there *)
(* yet.  Nothing makes them agree but their code.  And what was resolved   *)
(* is used later, by calls between which other workers change the tree.    *)
(*                                                                         *)
(* The string of a path is the sequence of what stands between its slashes *)
(* ("/a//b" is <<"", "a", "", "b">>); an absolute path is the sequence of  *)
(* its names.                                                              *)
(*                                                                         *)
(* Abstractions.  There is no symbolic link, as nothing here makes one,    *)
(* and no path is too long for its buffer.  What a file contains, and what *)
(* is sent of it, is the subject of Store.                                 *)
(***************************************************************************)
EXTENDS Naturals, Sequences, SequencesExt

CONSTANTS
  Worker,   \* the workers of the slave
  Component, \* what may stand between two slashes
  Request,  \* the paths that clients ask for
  Root,     \* the absolute path of DEFAULT_SERVER_DIR
  Dirs,     \* the directories and
  Files,    \* the files that there are at first
  NONE      \* no path

\* Between two slashes that follow one another.
Empty == ""

Parent(q) == IF q = <<>> THEN <<>> ELSE Front(q)

\* A request has a path, if an empty one.  The slave has its directory.  What there
\* is at first is a tree.
ASSUME PathsAssumption ==
  /\ Empty \in Component
  /\ Request \subseteq Seq(Component) \ {<<>>}
  /\ Root \in Dirs /\ Root \in Seq(Component)
  /\ \A q \in Dirs \cup Files : Parent(q) \in Dirs
  /\ Dirs \cap Files = {}
  /\ NONE \notin Dirs \cup Files \cup Seq(Component)

VARIABLES
  dirs,     \* the directories
  files,    \* the files
  job,      \* job[w]: what worker w does, with which path, and if it was refused for
            \* a struct stat that was not set
  met       \* what only the properties look at: see Step

vars == <<dirs, files, job, met>>

-----------------------------------------------------------------------------
(* Resolving a path. *)

\* The k-th directory above q, from the outermost.
Above(q, k) == SubSeq(q, 1, k)

\* The path without its leading slashes: what is appended to the root.
Suffix(p) ==
  IF \A k \in 1..Len(p) : p[k] = Empty THEN <<Empty>>
  ELSE LET k == CHOOSE k \in 1..Len(p) : p[k] # Empty /\ \A j \in 1..(k - 1) : p[j] = Empty
       IN SubSeq(p, k, Len(p))

\* One component further than q, as the kernel goes.
Walk(q, name) ==
  CASE q \notin dirs                         -> NONE
    [] q \in dirs /\ name \in {Empty, "."}      -> q
    [] q \in dirs /\ name = ".."             -> Parent(q)
    [] OTHER -> IF Append(q, name) \in dirs \cup files THEN Append(q, name) ELSE NONE

\* Where the first k components of s lead, for each k.
Walked(s) ==
  LET at[k \in 0..Len(s)] == IF k = 0 THEN Root ELSE Walk(at[k - 1], s[k])
  IN at

Realpath(p) == Walked(Suffix(p))[Len(Suffix(p))]

\* Mutant: strncmp, without the look at the character that follows.
is_path_in_dirpath_NoSeparator(q) ==
  /\ Len(q) >= Len(Root)
  /\ Above(q, Len(Root) - 1) = Parent(Root)
  /\ q[Len(Root)] \in {Last(Root), "serverdirx"}

is_path_in_dirpath(q) == IsPrefix(Root, q)

\* require_existing: what is there, and in the directory of the slave.
Existing(p) ==
  LET q == Realpath(p) IN IF q # NONE /\ is_path_in_dirpath(q) THEN q ELSE NONE

\* The path under the root that the first k components of s make, for each k:
\* an empty one adds nothing.
Joined(s) ==
  LET at[k \in 0..Len(s)] ==
        IF k = 0 THEN Root
        ELSE IF s[k] = Empty THEN at[k - 1] ELSE Append(at[k - 1], s[k])
  IN at

\* Mutant: dots are passed over, as empty components are.
New_SkipsDots(p) ==
  LET s == [k \in DOMAIN Suffix(p) |-> IF Suffix(p)[k] \in {".", ".."} THEN Empty ELSE Suffix(p)[k]]
  IN IF Last(s) = Empty THEN NONE ELSE Joined(s)[Len(s)]

\* Mutant: that something is left to be the name is not looked at.
New_Nameless(p) ==
  IF \E k \in DOMAIN Suffix(p) : Suffix(p)[k] \in {".", ".."} THEN NONE
  ELSE Joined(Suffix(p))[Len(Suffix(p))]

\* Otherwise: no "." or "..", and a name at the end; the rest is not looked at.
New(p) ==
  IF Last(Suffix(p)) = Empty \/ \E k \in DOMAIN Suffix(p) : Suffix(p)[k] \in {".", ".."}
  THEN NONE
  ELSE Joined(Suffix(p))[Len(Suffix(p))]

-----------------------------------------------------------------------------
Idle == [op |-> "none"]
Job(op, q, at) == [op |-> op, path |-> q, at |-> at, made |-> Len(Root), unset |-> FALSE]

Doing(w, op, at) == job[w].op = op /\ job[w].at = at

Init ==
  /\ dirs = Dirs
  /\ files = Files
  /\ job = [w \in Worker |-> Idle]
  /\ met = {}

\* What can make a put of q fail: a file where it needs a directory, or a
\* directory where it needs a file.
Blocked(q, ds, fs) ==
  q \in ds \/ \E k \in 1..(Len(q) - 1) : Above(q, k) \in fs

\* Worker w goes on with j.  A put that is blocked in the new state, whoever made
\* it, has met that, and so has a get whose file is gone.
Step(w, j) ==
  /\ job' = [job EXCEPT ![w] = j]
  /\ met' = {x \in Worker :
       \/ x \in met /\ job[x] # Idle /\ job'[x] # Idle
       \/ job'[x].op = "put" /\ Blocked(job'[x].path, dirs', files')
       \/ job'[x].op = "get" /\ job'[x].path \notin dirs' \cup files'}

Goes(w, at) == Step(w, [job[w] EXCEPT !.at = at])

\* What worker w was at is over.
Done(w) ==
  /\ job[w] # Idle
  /\ job[w].at \in {"opened", "refused"}
  /\ UNCHANGED <<dirs, files>>
  /\ Step(w, Idle)

-----------------------------------------------------------------------------
(* A get: open_file_r.  An rm: remove_file. *)

Get(w, p) ==
  /\ job[w] = Idle
  /\ Existing(p) # NONE
  /\ UNCHANGED <<dirs, files>>
  /\ Step(w, Job("get", Existing(p), "stat"))

\* Mutant: no S_ISDIR.
GetStat_NoCheck(w) ==
  /\ Doing(w, "get", "stat")
  /\ UNCHANGED <<dirs, files>>
  /\ Goes(w, "open")

\* A directory is refused; of what is no longer there, nobody knows what it is.
GetStat(w) ==
  /\ Doing(w, "get", "stat")
  /\ UNCHANGED <<dirs, files>>
  /\ \/ job[w].path \notin dirs /\ Goes(w, "open")
     \/ job[w].path \notin files /\ Goes(w, "refused")

\* open(2), for reading, takes a directory too.
GetOpen(w) ==
  /\ Doing(w, "get", "open")
  /\ UNCHANGED <<dirs, files>>
  /\ Goes(w, IF job[w].path \in dirs \cup files THEN "opened" ELSE "refused")

Rm(w, p) ==
  /\ job[w] = Idle
  /\ Existing(p) # NONE
  /\ UNCHANGED <<dirs, files>>
  /\ Step(w, Job("rm", Existing(p), "unlink"))

\* unlink(2) does not take a directory.
Unlink(w) ==
  /\ Doing(w, "rm", "unlink")
  /\ files' = files \ {job[w].path}
  /\ UNCHANGED dirs
  /\ Step(w, Idle)

-----------------------------------------------------------------------------
(* A put: open_file_w. *)

Put(w, p) ==
  /\ job[w] = Idle
  /\ New(p) # NONE
  /\ UNCHANGED <<dirs, files>>
  /\ Step(w, Job("put", New(p), "mkdir"))

\* Mutant: a directory that is there already is an error.
Mkdir_Strict(w) ==
  /\ Doing(w, "put", "mkdir")
  /\ job[w].made < Len(job[w].path) - 1
  /\ UNCHANGED files
  /\ LET q == Above(job[w].path, job[w].made + 1)
     IN IF q \notin dirs \cup files /\ Parent(q) \in dirs
        THEN /\ dirs' = dirs \cup {q}
             /\ Step(w, [job[w] EXCEPT !.made = @ + 1])
        ELSE UNCHANGED dirs /\ Goes(w, "refused")

\* mkdir(2) of the next directory above the file.  One that is there will do, and
\* so will, for the time being, a file.
Mkdir(w) ==
  /\ Doing(w, "put", "mkdir")
  /\ job[w].made < Len(job[w].path) - 1
  /\ UNCHANGED files
  /\ LET q == Above(job[w].path, job[w].made + 1)
         there == q \in dirs \cup files
     IN IF there \/ Parent(q) \in dirs
        THEN /\ dirs' = IF there THEN dirs ELSE dirs \cup {q}
             /\ Step(w, [job[w] EXCEPT !.made = @ + 1])
        ELSE UNCHANGED dirs /\ Goes(w, "refused")

\* A directory is refused.  Of a new file stat(2) fails, which is not looked at, and
\* st is what it happens to be: the file may be refused as if it were a directory.
PutStat(w) ==
  /\ Doing(w, "put", "mkdir")
  /\ job[w].made = Len(job[w].path) - 1
  /\ UNCHANGED <<dirs, files>>
  /\ \/ job[w].path \notin dirs /\ Goes(w, "open")
     \/ job[w].path \in dirs /\ Goes(w, "refused")
     \/ /\ job[w].path \notin dirs \cup files
        /\ Step(w, [job[w] EXCEPT !.at = "refused", !.unset = TRUE])

PutOpen(w) ==
  /\ Doing(w, "put", "open")
  /\ UNCHANGED dirs
  /\ IF job[w].path \notin dirs /\ Parent(job[w].path) \in dirs
     THEN files' = files \cup {job[w].path} /\ Goes(w, "opened")
     ELSE UNCHANGED files /\ Goes(w, "refused")

-----------------------------------------------------------------------------
Next ==
  \E w \in Worker :
    \/ \E p \in Request : Get(w, p) \/ Rm(w, p) \/ Put(w, p)
    \/ GetStat(w) \/ GetOpen(w) \/ Unlink(w)
    \/ Mkdir(w) \/ PutStat(w) \/ PutOpen(w)
    \/ Done(w)

Spec == Init /\ [][Next]_vars

-----------------------------------------------------------------------------
(* Properties. *)

\* The type invariant: a tree, with the directories on the way to all it
\* holds; and a put has a name to give under the directory of the slave.
TypeOK ==
  /\ \A q \in dirs \cup files : Parent(q) \in dirs
  /\ dirs \cap files = {}
  /\ \A w \in Worker \ {x \in Worker : job[x] = Idle} :
       /\ job[w].op \in {"get", "rm", "put"}
       /\ job[w].at \in {"stat", "mkdir", "unlink", "open", "opened", "refused"}
       /\ job[w].made \in Nat
       /\ job[w].unset \in BOOLEAN
       /\ job[w].op = "put" => job[w].made \in Len(Root)..(Len(job[w].path) - 1)
  /\ met \subseteq Worker

\* Whatever a path is made of (slashes, dots, the name of a directory that begins
\* like the root), what is read, made or removed is in the directory of the slave.
\* The path of a put, that the kernel walks with all the dots it has, has none there.
Confined ==
  /\ \A w \in Worker : job[w] # Idle => IsPrefix(Root, job[w].path)
  /\ \A w \in Worker : job[w].op = "put" =>
       \A k \in (Len(Root) + 1)..Len(job[w].path) : job[w].path[k] \notin {".", ".."}
  /\ \A q \in (dirs \cup files) \ (Dirs \cup Files) : IsPrefix(Root, q)
  /\ \A q \in Files \ files : IsPrefix(Root, q)

\* The two ways to resolve a path agree wherever both give one: what a put has
\* stored under a path is what a get and an rm of the same path find, and a put
\* of a path that a get would find a file under replaces that file.
OneFilePerPath ==
  \A p \in Request :
    New(p) # NONE /\ {New(p), Existing(p)} \cap files # {} => Existing(p) = New(p)

\* Puts that make the same directories at the same time do not hinder each other:
\* one that is refused has met, at some time since it began, a file where it needs
\* a directory or a directory under its own name.  But for one refusal that has no
\* such reason: there was nothing under its name when open_file_w called stat(2),
\* and the put was refused for what the struct stat, not set, happened to hold.
RefusedForAReason ==
  \A w \in Worker : Doing(w, "put", "refused") => w \in met \/ job[w].unset

\* A get opens a file, unless that file has gone since the path was resolved: only
\* then can what it opens be the directory that a put has made of its name.
OpensAFile ==
  \A w \in Worker \ met : Doing(w, "get", "opened") => job[w].path \notin dirs
=============================================================================
