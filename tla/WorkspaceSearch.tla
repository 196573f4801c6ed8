-------------------------- MODULE WorkspaceSearch --------------------------
(***************************************************************************)
(* The reading tools of crates/jiaclaw/src/files.rs: read_file, list_dir,  *)
(* grep and glob.                                                          *)
(*                                                                         *)
(* A directory tree is the sequence of its entries in the order the walks  *)
(* meet them, a directory before what is in it and names in order; depth   *)
(* says how deep an entry is.  Of a file's contents a search tells apart   *)
(* whether it is text of a size to search (text), whether the glob wants   *)
(* it (wanted) and how many of its lines match (hits).                     *)
(***************************************************************************)
EXTENDS Integers, Sequences, FiniteSets, SequencesExt

-----------------------------------------------------------------------------
\* Globs.  A pattern is a sequence of segments, a segment one of characters.

\* A star that is tried with nothing only.
GlobSegment_NoRetry(glob, text) ==
    LET match[g \in 1 .. Len(glob) + 1, t \in 1 .. Len(text) + 1] ==
            IF t > Len(text) THEN \A k \in g .. Len(glob) : glob[k] = "*"
            ELSE IF g > Len(glob) THEN FALSE
            ELSE IF glob[g] = "*" THEN match[g + 1, t]
            ELSE glob[g] \in {"?", text[t]} /\ match[g + 1, t + 1]
    IN  match[1, 1]

GlobStart == [g |-> 1, t |-> 1, star |-> 0, from |-> 0, failed |-> FALSE]

(***************************************************************************)
(* One turn of glob_match_segment's loop over the text. It remembers the   *)
(* last star only: a mismatch goes back to it and lets it take one         *)
(* character more.                                                         *)
(***************************************************************************)
GlobStep(glob, text, at) ==
    IF at.failed \/ at.t > Len(text) THEN at
    ELSE IF at.g <= Len(glob) /\ glob[at.g] # "*" /\ glob[at.g] \in {"?", text[at.t]}
    THEN [at EXCEPT !.g = at.g + 1, !.t = at.t + 1]
    ELSE IF at.g <= Len(glob) /\ glob[at.g] = "*"
    THEN [at EXCEPT !.g = at.g + 1, !.star = at.g, !.from = at.t]
    ELSE IF at.star # 0
    THEN [at EXCEPT !.g = at.star + 1, !.t = at.from + 1, !.from = at.from + 1]
    ELSE [at EXCEPT !.failed = TRUE]

\* The turns after which the loop has ended for sure.
GlobSteps(glob, text) == (Len(glob) + Len(text) + 2) * (Len(text) + 2)

GlobRun(glob, text) ==
    LET at[n \in 0 .. GlobSteps(glob, text)] ==
            IF n = 0 THEN GlobStart ELSE GlobStep(glob, text, at[n - 1])
    IN  at

\* glob_match_segment: the text has been taken, and only stars are left.
GlobSegment(glob, text) ==
    LET end == GlobRun(glob, text)[GlobSteps(glob, text)]
    IN  /\ ~end.failed /\ end.t > Len(text)
        /\ \A k \in end.g .. Len(glob) : glob[k] = "*"

PartPlaces(segments, path) == (1 .. Len(segments) + 1) \X (1 .. Len(path) + 1)

\* glob_match_parts from each segment and name on: ** stands for any number of directories.
PartsTable(segments, path) ==
    LET match[at \in PartPlaces(segments, path)] ==
            LET g == at[1]
                t == at[2]
            IN  IF g > Len(segments) THEN t > Len(path)
                ELSE IF segments[g] = <<"*", "*">>
                THEN match[<<g + 1, t>>] \/ (t <= Len(path) /\ match[<<g, t + 1>>])
                ELSE t <= Len(path) /\ GlobSegment(segments[g], path[t]) /\ match[<<g + 1, t + 1>>]
    IN  match

GlobParts(segments, path) == PartsTable(segments, path)[<<1, 1>>]

(***************************************************************************)
(* glob_matches.  A pattern with a slash, which may be at one of its ends, *)
(* is for the path; one without is for the name of the file alone, and an  *)
(* empty one for every file.                                               *)
(***************************************************************************)
GlobMatches(segments, slash, path) ==
    IF slash THEN GlobParts(segments, path)
    ELSE segments = <<>> \/ GlobSegment(segments[1], Last(path))

-----------------------------------------------------------------------------
\* Walks over a tree.

\* What is below entry i.
Below(tree, i) == {j \in i + 1 .. Len(tree) : \A k \in i + 1 .. j : tree[k].depth > tree[i].depth}

\* What a search meets: it leaves out .git and what cannot be met.
Met(tree) == {i \in DOMAIN tree : \A j \in DOMAIN tree : tree[j].kind = "git" => i # j /\ i \notin Below(tree, j)}

Begun == [out |-> <<>>, scanned |-> 0, truncated |-> FALSE, failed |-> FALSE]

\* A limit that is met on the last line or file leaves more to look at.
Full(walk, maxMatches, maxFiles) == Len(walk.out) >= maxMatches \/ walk.scanned >= maxFiles

\* grep_one_regular_file and collect_line_matches: the lines up to the limit.
GrepFile(walk, i, entry, maxMatches) ==
    LET hits == IF entry.wanted /\ entry.text THEN entry.hits ELSE 0
        room == maxMatches - Len(walk.out)
        taken == IF hits < room THEN hits ELSE room
    IN  [walk EXCEPT !.scanned = @ + 1, !.truncated = hits >= room,
                     !.out = @ \o [k \in 1 .. taken |-> <<i, k>>]]

(***************************************************************************)
(* walk_grep_dir, which looks at both limits before every entry and once   *)
(* more after the last one.  A directory that cannot be read fails it all. *)
(***************************************************************************)
GrepVisit(tree, maxMatches, maxFiles, walk, i) ==
    IF walk.truncated \/ walk.failed \/ i \notin Met(tree) THEN walk
    ELSE IF Full(walk, maxMatches, maxFiles) THEN [walk EXCEPT !.truncated = TRUE]
    ELSE IF tree[i].kind = "closed" THEN [walk EXCEPT !.failed = TRUE]
    ELSE IF tree[i].kind = "file" THEN GrepFile(walk, i, tree[i], maxMatches)
    ELSE walk

\* The walk after each of the entries.
GrepWalk(tree, maxMatches, maxFiles) ==
    LET walk[n \in 0 .. Len(tree)] ==
            IF n = 0 THEN Begun ELSE GrepVisit(tree, maxMatches, maxFiles, walk[n - 1], n)
    IN  walk

Grep(tree, maxMatches, maxFiles) ==
    LET walked == GrepWalk(tree, maxMatches, maxFiles)[Len(tree)]
    IN  [walked EXCEPT !.truncated = @ \/ Full(walked, maxMatches, maxFiles)]

\* A cut that nobody is told of.
CutTo_Silently(walk, max) == [walk EXCEPT !.out = SubSeq(@, 1, IF Len(@) > max THEN max ELSE Len(@))]

CutTo(walk, max) ==
    [walk EXCEPT !.truncated = @ \/ Len(walk.out) > max,
                 !.out = SubSeq(@, 1, IF Len(@) > max THEN max ELSE Len(@))]

(***************************************************************************)
(* walk_glob_dir and glob_workspace.  A wanted file too many ends the walk; *)
(* what was found is sorted and cut to what was asked for.                 *)
(***************************************************************************)
GlobVisit(tree, maxFiles, maxFound, walk, i) ==
    IF walk.truncated \/ walk.failed \/ i \notin Met(tree) THEN walk
    ELSE IF walk.scanned >= maxFiles THEN [walk EXCEPT !.truncated = TRUE]
    ELSE IF tree[i].kind = "closed" THEN [walk EXCEPT !.failed = TRUE]
    ELSE IF tree[i].kind # "file" THEN walk
    ELSE [walk EXCEPT !.scanned = @ + 1,
                      !.truncated = tree[i].wanted /\ Len(walk.out) >= maxFound,
                      !.out = IF tree[i].wanted /\ Len(@) < maxFound THEN Append(@, i) ELSE @]

GlobWalk(tree, maxFiles, maxFound) ==
    LET walk[n \in 0 .. Len(tree)] ==
            IF n = 0 THEN Begun ELSE GlobVisit(tree, maxFiles, maxFound, walk[n - 1], n)
    IN  walk

Glob(tree, maxResults, maxFiles, maxFound) == CutTo(GlobWalk(tree, maxFiles, maxFound)[Len(tree)], maxResults)

\* What a listing has entries of.
Listed(tree, recursive) == {i \in DOMAIN tree : recursive \/ tree[i].depth = 1}

(***************************************************************************)
(* collect_dir_entries.  A directory is not entered once the limit is met, *)
(* and an entry that is met after the limit cuts the listing.              *)
(***************************************************************************)
ListVisit(tree, recursive, maxEntries, walk, i) ==
    IF walk.truncated \/ walk.failed \/ i \notin Listed(tree, recursive) THEN walk
    ELSE IF Len(walk.out) >= maxEntries /\ i \in Below(tree, Last(walk.out)) THEN walk
    ELSE IF Len(walk.out) >= maxEntries THEN [walk EXCEPT !.truncated = TRUE]
    ELSE [walk EXCEPT !.out = Append(@, i),
                      !.failed = recursive /\ tree[i].kind = "closed" /\ Len(walk.out) + 1 < maxEntries]

ListWalk(tree, recursive, maxEntries) ==
    LET walk[n \in 0 .. Len(tree)] ==
            IF n = 0 THEN Begun ELSE ListVisit(tree, recursive, maxEntries, walk[n - 1], n)
    IN  walk

ListDir(tree, recursive, maxEntries) == ListWalk(tree, recursive, maxEntries)[Len(tree)]

-----------------------------------------------------------------------------

\* The limit of a reader who wants all lines from the offset on.
NoLimit == 0

\* slice_lines: the lines from offset on, counted from one, at most limit.
SliceLines(lines, offset, limit) ==
    LET total == Len(lines)
        start == IF offset - 1 < total THEN offset - 1 ELSE total
        end == IF limit = NoLimit \/ start + limit > total THEN total ELSE start + limit
    IN  [lines |-> SubSeq(lines, start + 1, end), truncated |-> start > 0 \/ end < total]

-----------------------------------------------------------------------------

(***************************************************************************)
(* The meaning of a glob: every part stands for a stretch of the text, a   *)
(* wild one for any stretch and another one for a single element it fits.  *)
(***************************************************************************)
Aligns(parts, text, Wild(_), Fits(_, _)) ==
    \E cut \in [0 .. Len(parts) -> 0 .. Len(text)] :
        /\ cut[0] = 0 /\ cut[Len(parts)] = Len(text)
        /\ \A i \in 1 .. Len(parts) :
              IF Wild(parts[i]) THEN cut[i - 1] <= cut[i]
              ELSE cut[i] = cut[i - 1] + 1 /\ Fits(parts[i], text[cut[i]])

SegmentMeans(glob, text) ==
    Aligns(glob, text, LAMBDA c : c = "*", LAMBDA c, d : c \in {"?", d})

(***************************************************************************)
(* The greedy match of a segment, and the match of a path by segments or   *)
(* by its name, accept exactly what the pattern means (glob_matches).      *)
(***************************************************************************)
SegmentMatchesMeaning(glob, text) == GlobSegment(glob, text) = SegmentMeans(glob, text)

PathMatchesMeaning(segments, slash, path) ==
    GlobMatches(segments, slash, path) =
        IF slash THEN Aligns(segments, path, LAMBDA s : s = <<"*", "*">>, LAMBDA s, name : SegmentMeans(s, name))
        ELSE segments = <<>> \/ SegmentMeans(segments[1], Last(path))

Found(tree) == {i \in Met(tree) : tree[i].kind = "file" /\ tree[i].wanted}
Lines(tree) == UNION {{<<i, k>> : k \in 1 .. tree[i].hits} : i \in {j \in Found(tree) : tree[j].text}}

(***************************************************************************)
(* A search that does not say it was truncated has found everything, one   *)
(* that fails met a directory it could not read, and none finds more than  *)
(* it was asked for (the truncated fields of GrepOutput and GlobOutput).   *)
(***************************************************************************)
SearchIsComplete(tree, max, maxFiles, maxFound) ==
    LET grep == Grep(tree, max, maxFiles)
        glob == Glob(tree, max, maxFiles, maxFound)
    IN  /\ Len(grep.out) <= max /\ Len(glob.out) <= max
        /\ ~grep.truncated /\ ~grep.failed => ToSet(grep.out) = Lines(tree)
        /\ ~glob.truncated /\ ~glob.failed => ToSet(glob.out) = Found(tree)
        /\ ToSet(grep.out) \subseteq Lines(tree) /\ ToSet(glob.out) \subseteq Found(tree)
        /\ grep.truncated => Len(grep.out) = max \/ grep.scanned = maxFiles

(***************************************************************************)
(* A listing that does not say it was cut lists everything, but for what   *)
(* is in a directory that took the last place: collect_dir_entries does    *)
(* not enter it and tells nobody, though the field truncated of            *)
(* ListDirOutput is to say whether max_entries cut the listing.  One that  *)
(* says so is as long as was asked for.                                    *)
(***************************************************************************)
ListingTellsCut(tree, recursive, maxEntries) ==
    LET list == ListDir(tree, recursive, maxEntries)
        skipped == IF Len(list.out) = maxEntries THEN Below(tree, Last(list.out)) ELSE {}
    IN  /\ ~list.truncated /\ ~list.failed => Listed(tree, recursive) \ skipped = ToSet(list.out)
        /\ list.truncated => Len(list.out) = maxEntries

(***************************************************************************)
(* A file is read page by page without a gap or a line twice, wherever a   *)
(* page begins and however many lines it may have: what a page lacks of    *)
(* the rest is what the next page begins with.  A page says that it is     *)
(* truncated unless it is the whole file (read_workspace_file).            *)
(***************************************************************************)
PagesJoin(lines, offset, limit) ==
    LET page == SliceLines(lines, offset, limit)
        next == SliceLines(lines, offset + limit, NoLimit)
    IN  /\ page.lines \o next.lines = SliceLines(lines, offset, NoLimit).lines
        /\ page.truncated <=> page.lines # lines
=============================================================================
