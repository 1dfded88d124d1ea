-------------------------------- MODULE Paths --------------------------------
(***************************************************************************)
(* Paths as the proxy reads them (normalize.rs), and as the machine that   *)
(* opens them does.                                                        *)
(*                                                                         *)
(* A path is a sequence of characters.  The proxy decides on a rewritten   *)
(* spelling, Normalize; whoever opens the file walks the path from the     *)
(* directory it is in, Resolve, and ends at a location.  A spelling admits *)
(* by its first characters, a directory by where it is: GrantFile and Gate *)
(* relate the two.                                                         *)
(***************************************************************************)
EXTENDS Naturals, Sequences

LOCAL INSTANCE SequencesExt

CONSTANTS
  Letter,  \* ASCII letters
  Fold     \* their lower case

ASSUME LetterAssumption == Fold \in [Letter -> Letter]

Flavor == {"Posix", "Windows"}

Dot == <<".">>
DotDot == <<".", ".">>

\* PathFlavor::is_separator.
IsSeparator(c, flavor) == c = "/" \/ (flavor = "Windows" /\ c = "\\")

\* What stands between separators.
Split(path, flavor) ==
  LET starts == SelectSeq([i \in 1 .. Len(path) + 1 |-> i],
                          LAMBDA i : i > 1 => IsSeparator(path[i - 1], flavor))
      end(k) == IF k = Len(starts) THEN Len(path) ELSE starts[k + 1] - 2
  IN [k \in DOMAIN starts |-> SubSeq(path, starts[k], end(k))]

\* Repeated separators, a trailing one and the current directory leave nothing.
Segments(path, flavor) ==
  SelectSeq(Split(path, flavor), LAMBDA s : s # <<>> /\ s # Dot)

LeadingSeparators(path, flavor) ==
  Cardinality({i \in DOMAIN path : \A j \in 1 .. i : IsSeparator(path[j], flavor)})

\* No root, "/", or for two separators and more the other root, "//".
Root(path, flavor) == SubSeq(<<"/", "/">>, 1, Min({2, LeadingSeparators(path, flavor)}))

\* The path begins X:\ or X:/.
DriveRooted(path, flavor) ==
  /\ flavor = "Windows" /\ Len(path) >= 3
  /\ path[1] \in Letter /\ path[2] = ":" /\ IsSeparator(path[3], flavor)

\* How many leading segments belong to the root: server and share, or the drive.
AuthoritySegments(path, flavor) ==
  IF flavor = "Posix" THEN 0
  ELSE IF Len(Root(path, flavor)) = 2 THEN 2
  ELSE IF DriveRooted(path, flavor) THEN 1
  ELSE 0

\* Those of them that are there: none after a `..`.
Pinned(segments, path, flavor) ==
  LET owned == Min({AuthoritySegments(path, flavor), Len(segments)})
  IN Cardinality({i \in 1 .. owned : \A j \in 1 .. i : segments[j] # DotDot})

FoldCase(s, flavor) ==
  IF flavor = "Posix" THEN s
  ELSE [i \in DOMAIN s |-> IF s[i] \in Letter THEN Fold[s[i]] ELSE s[i]]

Join(segments) ==
  FoldLeft(LAMBDA text, s : IF text = <<>> THEN s ELSE text \o <<"/">> \o s, <<>>, segments)

-----------------------------------------------------------------------------
(* What the proxy decides on *)

\* Mutant: `..` may climb past the names in a root.
NormalizeUnpinned(path, flavor) ==
  LET absolute == Root(path, flavor) # <<>> \/ DriveRooted(path, flavor)
      step(names, s) ==
        IF s # DotDot THEN Append(names, s)
        ELSE IF names # <<>> /\ Last(names) # DotDot THEN Front(names)
        ELSE IF absolute THEN names ELSE Append(names, s)
  IN FoldCase(Root(path, flavor) \o Join(FoldLeft(step, <<>>, Segments(path, flavor))), flavor)

\* A `..` takes away the name before it; at the root it does nothing, and where there
\* is no root it is kept.
Normalize(path, flavor) ==
  LET segments == Segments(path, flavor)
      absolute == Root(path, flavor) # <<>> \/ DriveRooted(path, flavor)
      floor == Pinned(segments, path, flavor)
      step(names, s) ==
        IF s # DotDot THEN Append(names, s)
        ELSE IF Len(names) > floor THEN IF Last(names) = DotDot THEN Append(names, s) ELSE Front(names)
        ELSE IF absolute THEN names ELSE Append(names, s)
      names == FoldLeft(step, SubSeq(segments, 1, floor), SubSeq(segments, floor + 1, Len(segments)))
  IN FoldCase(Root(path, flavor) \o Join(names), flavor)

EndsInSeparator(path, flavor) == path # <<>> /\ IsSeparator(Last(path), flavor)

\* A prefix keeps its trailing separator, and gains none.
NormalizePrefix(prefix, flavor) ==
  LET out == Normalize(prefix, flavor)
  IN IF out # <<>> /\ EndsInSeparator(prefix, flavor) /\ ~EndsInSeparator(out, "Posix")
       THEN Append(out, "/") ELSE out

-----------------------------------------------------------------------------
(* What is opened *)

\* Where a path leads from the location cwd: a sequence of names, the first of them a
\* root.  No `..` leaves a root, and a root has its server and share, or its drive, in it.
Resolve(cwd, path, flavor) ==
  LET segments == Segments(path, flavor)
      own == Pinned(segments, path, flavor)
      from == CASE Len(Root(path, flavor)) = 2 -> << <<"/", "/">> >>
                [] DriveRooted(path, flavor) -> <<>>
                [] Root(path, flavor) = <<"/">> -> <<cwd[1]>>
                [] OTHER -> cwd
      bottom == IF own > 0 THEN Len(from) + own ELSE 1
      enter(names, s) ==
        IF s # DotDot THEN Append(names, FoldCase(s, flavor))
        ELSE IF Len(names) > bottom THEN Front(names) ELSE names
  IN FoldLeft(enter, from, segments)

\* What is before a separator is a directory, and so are `.` and `..`.
NamesDirectory(prefix, flavor) == Last(Split(prefix, flavor)) \in {<<>>, Dot, DotDot}

\* The location is top, or in it - only the latter, when the prefix ends in a separator -
\* or one of the names that go on from top's last, and what is in that.
AtOrBeyond(location, top, prefix, flavor) ==
  LET n == Len(top)
  IN /\ n <= Len(location)
     /\ SubSeq(location, 1, n - 1) = SubSeq(top, 1, n - 1)
     /\ IsPrefix(top[n], location[n])
     /\ EndsInSeparator(prefix, flavor) => location[n] = top[n] /\ n < Len(location)

\* What a path under a prefix is, both resolved from cwd: a prefix that names a directory
\* means that one and none whose name goes on.
Under(path, prefix, cwd, flavor) ==
  LET location == Resolve(cwd, path, flavor)
      top == Resolve(cwd, prefix, flavor)
  IN /\ AtOrBeyond(location, top, prefix, flavor)
     /\ NamesDirectory(prefix, flavor) => location[Len(top)] = top[Len(top)]

\* A relative path that normalization leaves beginning with a drive (`./C:/x`).
AsTaken(path, flavor) ==
  LET text == NormalizePrefix(path, flavor)
  IN IF DriveRooted(text, flavor) THEN text ELSE path

\* A prefix that is the beginning of a drive (`c`, `c:`), and a path that begins with that
\* drive, with or without a root.
OnDriveBegun(path, prefix, flavor) ==
  /\ flavor = "Windows"
  /\ \E letter \in Letter :
       /\ NormalizePrefix(prefix, flavor) \in {<<letter>>, <<letter, ":">>}
       /\ IsPrefix(<<letter, ":">>, Normalize(path, flavor))

\* The same with the three exceptions normalization makes: a prefix that names a directory
\* by a final `.` or `..` is taken for the names that go on from it, too, a path that
\* drops segments before a drive for one on that drive, and the beginning of a drive for
\* all that is there.
UnderAsTaken(path, prefix, cwd, flavor) ==
  \/ AtOrBeyond(Resolve(cwd, AsTaken(path, flavor), flavor),
                Resolve(cwd, AsTaken(prefix, flavor), flavor), prefix, flavor)
  \/ OnDriveBegun(path, prefix, flavor)

=============================================================================
