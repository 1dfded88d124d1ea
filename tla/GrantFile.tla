------------------------------ MODULE GrantFile ------------------------------
(***************************************************************************)
(* The config file's grants (grants.rs): what may be written, what is      *)
(* refused, and the grant set and path flavors it becomes.                 *)
(*                                                                         *)
(* A constraint as written is a record of all the keys, None where a key   *)
(* is not there; an expiry is a TOML date-time, with the parts it has.     *)
(***************************************************************************)
EXTENDS Grants, Paths, FiniteSets

LOCAL INSTANCE SequencesExt

CONSTANTS
  Unnameable,  \* tool names that are empty or hold a control character
  Nul          \* the character with code 0

ArgKeys == {"prefix", "path_prefix", "windows_path_prefix", "suffix", "one_of", "range", "absent"}

Keys(spec) == {key \in ArgKeys : spec[key] # None}

-----------------------------------------------------------------------------
(* One argument *)

\* What is left of a path prefix is a directory only when it is not empty, not the bare
\* root (a prefix of every `//` path) and not made of `..` alone.
Degenerate(normalized) ==
  \/ normalized = <<>>
  \/ normalized = <<"/">>
  \/ LET names == Segments(normalized, "Posix")
     IN names # <<>> /\ \A i \in DOMAIN names : names[i] = DotDot

UsablePrefix(prefix, flavor) ==
  LET normalized == NormalizePrefix(prefix, flavor)
  IN ~Degenerate(normalized) /\ Nul \notin {normalized[i] : i \in DOMAIN normalized}

\* ArgEntry::compile: exactly one key, and one that can be meant.
Accepted(spec) ==
  /\ Cardinality(Keys(spec)) = 1
  /\ spec.path_prefix # None => UsablePrefix(spec.path_prefix, "Posix")
  /\ spec.windows_path_prefix # None => UsablePrefix(spec.windows_path_prefix, "Windows")
  /\ spec.range # None => spec.range.min # None \/ spec.range.max # None
  /\ spec.absent # FALSE

FlavorOf(spec) ==
  CASE spec.path_prefix # None -> "Posix"
    [] spec.windows_path_prefix # None -> "Windows"
    [] OTHER -> None

ConstraintOf(spec) ==
  CASE spec.prefix # None -> [kind |-> "Prefix", text |-> spec.prefix]
    [] spec.path_prefix # None ->
         [kind |-> "Prefix", text |-> NormalizePrefix(spec.path_prefix, "Posix")]
    [] spec.windows_path_prefix # None ->
         [kind |-> "Prefix", text |-> NormalizePrefix(spec.windows_path_prefix, "Windows")]
    [] spec.suffix # None -> [kind |-> "Suffix", text |-> spec.suffix]
    [] spec.one_of # None -> [kind |-> "OneOf", set |-> spec.one_of]
    [] spec.range # None -> [kind |-> "Range", min |-> spec.range.min, max |-> spec.range.max]
    [] OTHER -> [kind |-> "Absent"]

-----------------------------------------------------------------------------
(* An expiry *)

\* Howard Hinnant's count of the days since 1970-01-01, in years that begin in March.
\* Rust's division truncates where \div rounds down: hence the 399.
DaysFromCivil(year, month, day) ==
  LET y == IF month <= 2 THEN year - 1 ELSE year
      era == IF y >= 0 THEN y \div 400 ELSE -((399 - y) \div 400)
      yearOfEra == y - era * 400
      dayOfYear == (153 * (IF month > 2 THEN month - 3 ELSE month + 9) + 2) \div 5 + day - 1
      dayOfEra == yearOfEra * 365 + yearOfEra \div 4 - yearOfEra \div 100 + dayOfYear
  IN era * 146097 + dayOfEra - 719468

\* A date-time without a date, a time or an offset is refused.  An offset is in minutes.
Instant(expires) == None \notin {expires.date, expires.time, expires.offset}

\* Fractions of a second are dropped: time has none.
ToTimestamp(expires) ==
  DaysFromCivil(expires.date[1], expires.date[2], expires.date[3]) * 86400
    + expires.time[1] * 3600 + expires.time[2] * 60 + expires.time[3] - expires.offset * 60

-----------------------------------------------------------------------------
(* The file *)

\* Each (tool, argument) is a path, in one flavor, or is not, wherever it is constrained.
OneFlavor(entries) ==
  \A i, j \in DOMAIN entries : \A arg \in Arg :
    /\ entries[i].tool = entries[j].tool
    /\ entries[i].args[arg] # None /\ entries[j].args[arg] # None
    => FlavorOf(entries[i].args[arg]) = FlavorOf(entries[j].args[arg])

\* check_version: exactly the one this build knows.
SupportedVersion == 1

\* parse and grant_config.  A file without entries has no grants, which is not refused here.
Loads(f) ==
  /\ f.version = SupportedVersion
  /\ f.upstreams # <<>>
  /\ \A i \in DOMAIN f.upstreams :
       LET u == f.upstreams[i] IN u.command # u.url /\ (u.headers => u.url)
  /\ f.grant # <<>> => f.principal \notin {None} \cup Unnameable
  /\ \A i \in DOMAIN f.grant :
       /\ f.grant[i].tool \notin Unnameable
       /\ f.grant[i].expires # None => Instant(f.grant[i].expires)
       /\ \A arg \in Arg : f.grant[i].args[arg] # None => Accepted(f.grant[i].args[arg])
  /\ OneFlavor(f.grant)

Compiled(entry) ==
  [tool |-> entry.tool,
   constraints |-> [arg \in Arg |-> IF entry.args[arg] = None THEN None ELSE ConstraintOf(entry.args[arg])],
   expires |-> IF entry.expires = None THEN None ELSE ToTimestamp(entry.expires)]

EnvelopeOf(f) ==
  [principal |-> f.principal, grants |-> [i \in DOMAIN f.grant |-> Compiled(f.grant[i])]]

\* PathFlavors: which arguments of a tool are paths.
PathFlavors(f, tool, arg) ==
  LET marked == {i \in DOMAIN f.grant : f.grant[i].tool = tool /\ f.grant[i].args[arg] # None}
  IN IF marked = {} THEN None ELSE FlavorOf(f.grant[CHOOSE i \in marked : TRUE].args[arg])

=============================================================================
