-------------------------------- MODULE MCGate --------------------------------
(***************************************************************************)
(* Gate on a few files and many calls.  Paths have up to seven segments    *)
(* behind every kind of root, and separators may mix; a drive is named     *)
(* only where a path begins, or begins once segments are dropped, for a    *)
(* colon is in no Windows file name.  The prefixes name directories in all *)
(* the ways there are, by a separator at the end, by `.` and by `..`, and  *)
(* drives with a root and without.                                         *)
(***************************************************************************)
EXTENDS Gate

LOCAL INSTANCE SequencesExt

Letters == {"a", "b", "c", "A", "C"}
MCFold == [l \in Letters |-> CASE l = "A" -> "a" [] l = "C" -> "c" [] OTHER -> l]

MCArg == {"x", "y"}
\* Names are text like all other strings.
Digits == <<"1", "2", "3", "4", "5", "6", "7", "8", "9", "A", "B", "C">>
PathTools == {<<"p", Digits[i]>> : i \in DOMAIN Digits}
Mail == <<"m">>
Pay == <<"p">>
Early == <<"e">>
Late == <<"l">>
MCTool == PathTools \cup {Mail, Pay, Early, Late, <<>>}
MCUnnameable == {<<>>}

MCCwd == [flavor \in Flavor |->
  IF flavor = "Posix" THEN {<< <<"/">> >>, << <<"/">>, <<"a">>, <<"b">> >>, << <<"/">>, <<"b">>, <<"b">>, <<"b">>, <<"b">> >>}
  ELSE {<< <<"c", ":">>, <<"a">> >>, << <<"c", ":">>, <<"b">>, <<"b">>, <<"b">>, <<"b">> >>, << <<"b", ":">> >>}]

-----------------------------------------------------------------------------
(* Files *)

NoKey == [key \in ArgKeys |-> None]
Key(key, value) == [NoKey EXCEPT ![key] = value]
Args(x, y) == [arg \in MCArg |-> IF arg = "x" THEN x ELSE y]
Entry(tool, x, y) == [tool |-> tool, expires |-> None, args |-> Args(x, y)]
Until(e, date, time, offset) == [e EXCEPT !.expires = [date |-> date, time |-> time, offset |-> offset]]

Stdio == [command |-> TRUE, url |-> FALSE, headers |-> FALSE]
FileOf(entries) == [version |-> 1, principal |-> <<"b">>, upstreams |-> <<Stdio>>, grant |-> entries]

PathFile(key, prefixes) ==
  FileOf([i \in DOMAIN prefixes |-> Entry(<<"p", Digits[i]>>, Key(key, prefixes[i]), None)])

PosixFile == PathFile("path_prefix",
  <<  <<"/", "a", "/">>, <<"/", "a">>, <<"a", "/", "/", ".", "/", "b", "/">>, <<".", ".", "/", "a", "/">>,
      <<"/", "/", "a", "/", "b", "/">>, <<"/", "a", "/", ".">>, <<"/", "a", "/", "b", "/", ".", ".">>,
      <<"a", "/", "b", "/", ".", ".">>, <<".", ".", "/", "a", "/", ".">> >>)
WindowsFile == PathFile("windows_path_prefix",
  <<  <<"\\", "A", "\\">>, <<"C", ":", "/", "a">>, <<"a", "\\", "b", "\\">>,
      <<"\\", "\\", "a", "\\", "b", "\\">>, <<"c", ":", "\\">>, <<"c", ":", "\\", "a", "\\", ".">>,
      <<"\\", "\\", "a", "\\", "b", "\\", ".">>, <<".", "/", "C", ":", "/", "a">>, <<"a", "/", "b", "/", "/", ".", ".">>,
      <<"c">>, <<"C", ":">>, <<"c", ":", "/", ".">> >>)

Words == {<<>>, <<"a">>, <<"b">>, <<"a", "b">>, <<"b", "a", "b">>, <<"a", "b", "a", "b", "a", "b">>}

ArgsFile == FileOf(
  << Entry(Mail, Key("suffix", <<"a", "b">>), Key("absent", TRUE)),
     Entry(Mail, Key("one_of", {<<"a">>, <<"a", "b">>}), None),
     Entry(Mail, Key("prefix", <<"b", "a">>), Key("range", [min |-> 1, max |-> None])),
     Entry(Pay, Key("range", [min |-> 1, max |-> 2]), Key("range", [min |-> None, max |-> 1])),
     Until(Entry(Pay, None, None), <<2000, 1, 1>>, <<0, 0, 1>>, 0) >>)

DatesFile == FileOf(
  << Until(Entry(Early, None, None), <<1972, 2, 29>>, <<0, 30, 0>>, 60),
     Until(Entry(Late, None, None), <<2024, 12, 31>>, <<23, 59, 59>>, -300),
     Until(Entry(Late, None, Key("absent", TRUE)), <<2025, 3, 1>>, <<0, 0, 0>>, 0) >>)

Bad(x) == FileOf(<<Entry(Mail, x, None)>>)

BadFiles ==
  << FileOf(<<>>), [ArgsFile EXCEPT !.version = 2], [ArgsFile EXCEPT !.principal = None],
     [ArgsFile EXCEPT !.upstreams = <<>>], [ArgsFile EXCEPT !.upstreams = <<[Stdio EXCEPT !.headers = TRUE]>>],
     FileOf(<<Entry(<<>>, None, None)>>), Bad(NoKey), Bad([Key("absent", TRUE) EXCEPT !["prefix"] = <<"a">>]),
     Bad(Key("absent", FALSE)), Bad(Key("range", [min |-> None, max |-> None])),
     Bad(Key("path_prefix", <<".", "/">>)), Bad(Key("path_prefix", <<"/", "a", "/", ".", ".">>)),
     Bad(Key("path_prefix", <<"a", "/", ".", ".", "/", ".", ".">>)), Bad(Key("path_prefix", <<"/", "0">>)),
     FileOf(<<Entry(Mail, Key("path_prefix", <<"a">>), None), Entry(Mail, Key("prefix", <<"a">>), None)>>),
     Bad(Key("windows_path_prefix", <<"\\">>)),
     FileOf(<<Until(Entry(Mail, None, None), <<2000, 1, 1>>, <<0, 0, 0>>, None)>>) >>

MCFiles == <<PosixFile, WindowsFile, ArgsFile, DatesFile>> \o BadFiles

-----------------------------------------------------------------------------
(* Calls *)

Str(s) == [kind |-> "string", str |-> s]
Int1(n) == [kind |-> "integer", int |-> n]
Member(key, value) == [key |-> key, value |-> value]
Object(members) == [kind |-> "object", members |-> members]
Params(tool, members) == <<Member("name", Str(tool)), Member("arguments", Object(members))>>

SegmentLists ==
  UNION {[1 .. n -> {<<>>, <<".">>, DotDot, <<"a">>, <<"A">>, <<"a", "b">>}] : n \in 0 .. 2}
    \cup [1 .. 3 -> {<<>>, <<".">>, DotDot, <<"a">>, <<"a", "b">>}]
    \cup [1 .. 4 -> {DotDot, <<"a">>, <<"b">>}]
    \cup {<<s, <<"b">>, DotDot, DotDot, t, <<"b">>, <<"a">> >> : s, t \in {<<"a">>, <<"b">>}}

With(separator, segments) ==
  FlattenSeq([i \in DOMAIN segments |->
    IF i = Len(segments) THEN segments[i] ELSE Append(segments[i], separator)])

\* How paths begin, and the separator that follows: the same or, on Windows, the other.
Beginnings(flavor) ==
  IF flavor = "Posix" THEN {<<>>, <<"/">>, <<"/", "/">>} \X {"/"}
  ELSE {<< <<>>, "/">>, << <<>>, "\\">>, << <<"/">>, "\\">>, << <<"/", "/">>, "/">>, << <<"\\", "\\">>, "\\">>,
        << <<"C", ":", "\\">>, "/">>, << <<"C", ":", "\\">>, "\\">>, << <<"c", ":", "/">>, "/">>,
        << <<"c", ":">>, "\\">>, << <<".", "/", "C", ":", "/">>, "\\">>,
        << <<"a", "\\", ".", ".", "\\", "c", ":", "\\">>, "/">>}

\* A NUL, 0, hides what follows it from some readers.
Paths1(flavor) ==
  {b[1] \o With(b[2], segments) : b \in Beginnings(flavor), segments \in SegmentLists}
    \cup {<<"/", "b", "0", "/", ".", ".", "/", ".", ".", "/", "a", "/", "a">>, <<"\\", "a", "\\", "b">>}

PathCalls(flavor, granting) ==
  {[params |-> Params(granting.grant[i].tool, <<Member("x", Str(path))>>), now |-> 0] :
     i \in DOMAIN granting.grant, path \in Paths1(flavor)}

Values == {Str(s) : s \in Words} \cup {Int1(n) : n \in 0 .. 3} \cup {[kind |-> "null"], [kind |-> "other"]}

Twice(tool, v, w) ==
  {Params(tool, <<Member("x", v), Member("x", w)>>),
   Append(Params(tool, <<Member("x", v)>>), Member("arguments", Object(<<Member("x", w)>>))),
   Append(Params(tool, <<Member("x", v)>>), Member("name", Str(Pay))),
   Append(Params(tool, <<Member("x", v)>>), Member("meta", w))}

ArgCalls ==
  {[params |-> p, now |-> 0] : p \in
     UNION {{Params(tool, <<Member("x", v)>>), Params(tool, <<Member("y", w), Member("x", v)>>)} :
              tool \in {Mail, Pay, <<"p", "1">>}, v, w \in Values}
       \cup UNION {Twice(Mail, v, w) : v, w \in {Str(<<"a">>), Str(<<"b">>), Int1(1)}}
       \cup {<<Member("name", v), Member("arguments", w)>> : v \in Values, w \in Values}
       \cup {<<Member("name", Str(Mail))>>, <<>>, None}}

\* Around the instants of DatesFile.
DateCalls ==
  {[params |-> Params(tool, <<>>), now |-> t] : tool \in {Early, Late},
     t \in UNION {{i - 1, i, i + 1} : i \in {68167800, 1735707599, 1740787200}}}

MCCalls ==
  [f \in DOMAIN MCFiles |->
     CASE f = 1 -> PathCalls("Posix", PosixFile) [] f = 2 -> PathCalls("Windows", WindowsFile)
       [] f = 3 -> ArgCalls [] f = 4 -> DateCalls [] OTHER -> {}]

=============================================================================
