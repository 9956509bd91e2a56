----------------------------- MODULE AppConfig -----------------------------
(***************************************************************************)
(* The configuration parser (app_config) over the local file system        *)
(* (filefs), on both platforms.  A file is a sequence of lines already     *)
(* trimmed; the base name of a file is a number, in the order in which     *)
(* names are sorted.  A path is relative: directories, then a base name.   *)
(***************************************************************************)
EXTENDS Integers, Sequences, FiniteSets, SequencesExt

CONSTANTS ConfigWords,    \* names of directories, sections and options, and values
          ConfigTrees,    \* each: absolute path -> sequence of lines
          ConfigNames,    \* the names load_from_file() is called with
          ConfigHosts,    \* subset of {"posix", "win32"}
          MaxOpen,        \* files the process may have open at once
          MaxConfigLoads  \* calls of load_from_file(): the bound

ConfigPaths == [dir : Seq(ConfigWords), base : Nat]
ConfigLines == [kind : {"skip"}] \cup [kind : {"section"}, name : ConfigWords]
         \cup [kind : {"option"}, name : ConfigWords, value : ConfigWords]
         \cup [kind : {"include"}, pattern : ConfigPaths]

ASSUME ConfigAssumption ==
  /\ "" \in ConfigWords /\ MaxOpen \in Nat \ {0} /\ ConfigNames \subseteq ConfigPaths
  /\ \A t \in ConfigTrees : /\ IsFiniteSet(DOMAIN t) /\ DOMAIN t \subseteq ConfigPaths
                            /\ t \in [DOMAIN t -> Seq(ConfigLines)]

VARIABLES
  tree,      \* the files of the file system
  host,      \* the platform of filefs_impl
  options,   \* <<section, name>> -> value
  cwd,       \* the current directory of the process
  asked,     \* the last call of load_from_file(): where and with which name
  frames,    \* the calls of do_load() in progress, the last one running
  outcome,   \* of that call: "none" yet, "loaded" or "thrown"
  loadings   \* calls of load_from_file() so far

cfgVars == <<tree, host, options, cwd, asked, frames, outcome, loadings>>

Resolve(dir, path) == [dir |-> dir \o path.dir, base |-> path.base]

(* What the system finds in dir for a pattern; base 0 is a wildcard.       *)
Matching(t, dir, pattern) ==
  LET found == { f \in DOMAIN t : /\ f.dir = dir \o pattern.dir
                                     /\ pattern.base \in {0, f.base} }
      bases == { f.base : f \in found }
      nth(k) == CHOOSE b \in bases : Cardinality({a \in bases : a < b}) = k - 1
  IN [k \in 1..Cardinality(bases) |-> [dir |-> pattern.dir, base |-> nth(k)]]

(* The iterator over glob(): every match, once.                            *)
posix_find(dir, pattern) == Matching(tree, dir, pattern)

(* On Windows find_next_file() hands out the name it already holds before
   it asks for the next one: the first match comes twice, the last never.  *)
win32_find(dir, pattern) ==
  LET m == Matching(tree, dir, pattern)
  IN IF Len(m) < 2 THEN m ELSE <<m[1]>> \o Front(m)

find(dir, pattern) ==
  IF host = "posix" THEN posix_find(dir, pattern) ELSE win32_find(dir, pattern)

-----------------------------------------------------------------------------
(* A call of do_load(): its name, the open file, the next line, the current
   section and, in an @include, the files still to load and the directory to
   return to.                                                              *)
Call(path) == [path |-> path, file |-> Resolve(cwd, path), at |-> 1,
               section |-> "", todo |-> <<>>, within |-> FALSE, tmp |-> <<>>]

Running == Last(frames)
Becomes(call) == frames' = Front(frames) \o <<call>>
Text == tree[Running.file]

ConfigInit ==
  /\ tree \in ConfigTrees /\ host \in ConfigHosts
  /\ options = << >> /\ cwd = <<>> /\ frames = <<>>
  /\ outcome = "none" /\ loadings = 0
  /\ asked = [dir |-> <<>>, path |-> CHOOSE n \in ConfigNames : TRUE]

Opens(path) == Resolve(cwd, path) \in DOMAIN tree /\ Len(frames) < MaxOpen

(* An ifstream that cannot be opened makes do_load() throw, through all its
   callers: the current directory stays where the includes moved it to.    *)
OpenFails == frames' = <<>> /\ outcome' = "thrown"

load_from_file(path) ==
  /\ frames = <<>> /\ loadings < MaxConfigLoads
  /\ options' = << >>
  /\ asked' = [dir |-> cwd, path |-> path] /\ loadings' = loadings + 1
  /\ IF Opens(path) THEN frames' = <<Call(path)>> /\ outcome' = "none"
                    ELSE OpenFails
  /\ UNCHANGED <<tree, host, cwd>>

(* Somebody edits the files between two calls.                             *)
Edit ==
  /\ frames = <<>> /\ 0 < loadings /\ loadings < MaxConfigLoads
  /\ tree' \in ConfigTrees \ {tree} /\ outcome' = "none"
  /\ UNCHANGED <<host, options, cwd, asked, frames, loadings>>

Reading(kind) ==
  /\ frames # <<>> /\ ~Running.within
  /\ Running.at <= Len(Text) /\ Text[Running.at].kind = kind

(* Blank lines, comments and lines without '='.                            *)
SkipLine ==
  /\ Reading("skip")
  /\ Becomes([Running EXCEPT !.at = @ + 1])
  /\ UNCHANGED <<tree, host, options, cwd, asked, outcome, loadings>>

SectionLine ==
  /\ Reading("section")
  /\ Becomes([Running EXCEPT !.at = @ + 1, !.section = Text[Running.at].name])
  /\ UNCHANGED <<tree, host, options, cwd, asked, outcome, loadings>>

assign(o, key, v) == [k \in DOMAIN o \cup {key} |-> IF k = key THEN v ELSE o[k]]

OptionLine ==
  /\ Reading("option")
  /\ LET line == Text[Running.at]
     IN options' = assign(options, <<Running.section, line.name>>, line.value)
  /\ Becomes([Running EXCEPT !.at = @ + 1])
  /\ UNCHANGED <<tree, host, cwd, asked, outcome, loadings>>

(* @include: go to the directory of this file and look the pattern up.     *)
IncludeLine ==
  /\ Reading("include")
  /\ cwd' = cwd \o Running.path.dir
  /\ Becomes([Running EXCEPT !.at = @ + 1, !.tmp = cwd, !.within = TRUE,
                !.todo = find(cwd', Text[Running.at].pattern)])
  /\ UNCHANGED <<tree, host, options, asked, outcome, loadings>>

(* do_load() of the next file found, which may be gone or unreadable.      *)
IncludeNext ==
  /\ frames # <<>> /\ Running.within /\ Running.todo # <<>>
  /\ \/ /\ Opens(Head(Running.todo))
        /\ frames' = Front(frames) \o
             <<[Running EXCEPT !.todo = Tail(@)], Call(Head(Running.todo))>>
        /\ UNCHANGED outcome
     \/ OpenFails
  /\ UNCHANGED <<tree, host, options, cwd, asked, loadings>>

(* A plausible fault: the directory is not restored.                       *)
Fault_IncludeDone ==
  /\ frames # <<>> /\ Running.within /\ Running.todo = <<>>
  /\ Becomes([Running EXCEPT !.within = FALSE])
  /\ UNCHANGED <<tree, host, options, cwd, asked, outcome, loadings>>

IncludeDone ==
  /\ frames # <<>> /\ Running.within /\ Running.todo = <<>>
  /\ cwd' = Running.tmp
  /\ Becomes([Running EXCEPT !.within = FALSE])
  /\ UNCHANGED <<tree, host, options, asked, outcome, loadings>>

(* getline() fails at the end of the file: do_load() returns.              *)
EndOfFile ==
  /\ frames # <<>> /\ ~Running.within /\ Running.at > Len(Text)
  /\ frames' = Front(frames)
  /\ outcome' = IF Len(frames) = 1 THEN "loaded" ELSE outcome
  /\ UNCHANGED <<tree, host, options, cwd, asked, loadings>>

ConfigNext ==
  \/ \E path \in ConfigNames : load_from_file(path)
  \/ Edit \/ SkipLine \/ SectionLine \/ OptionLine
  \/ IncludeLine \/ IncludeNext \/ IncludeDone \/ EndOfFile

-----------------------------------------------------------------------------
(* The queries.  An option that is missing gives the default.              *)
value_string(section, name, def) ==
  IF <<section, name>> \in DOMAIN options THEN options[<<section, name>>] ELSE def

section_options(section) == { k \in DOMAIN options : k[1] = section }

(* value<bool>(): the words that mean true, each standing for its spellings
   in any case; the default goes through the same comparison as a word.    *)
value_bool(section, name, def) ==
  value_string(section, name, IF def THEN "1" ELSE "0") \in {"YES", "ON", "TRUE", "1"}

(* The reference: what a file says is the options of its lines in order, an
   @include being what the files it names say, whatever the current directory.
   A file starts without a section, and the including file goes on in its own. *)
SectionAt(lines, n) ==
  LET marks == {k \in 1..(n - 1) : lines[k].kind = "section"}
  IN IF marks = {} THEN "" ELSE lines[Max(marks)].name

Entry(section, line) == [key |-> <<section, line.name>>, value |-> line.value]

(* The first n sequences of f, one after the other.                        *)
Joined(f, n) ==
  LET joined[k \in 0..Len(f)] == IF k = 0 THEN <<>> ELSE joined[k - 1] \o f[k]
  IN joined[n]

Told(says, file) == IF file \in DOMAIN says THEN says[file] ELSE <<>>
Included(says, dir, names) == [k \in DOMAIN names |-> Told(says, Resolve(dir, names[k]))]
LineSays(t, says, file, n) ==
  LET line  == t[file][n]
      names == Matching(t, file.dir, line.pattern)
  IN CASE line.kind = "option"  -> <<Entry(SectionAt(t[file], n), line)>>
       [] line.kind = "include" -> Joined(Included(says, file.dir, names), Len(names))
       [] OTHER                 -> <<>>
LinesSay(t, says, file) == [n \in DOMAIN t[file] |-> LineSays(t, says, file, n)]

(* What the files say that may have so many more open above them.          *)
Says(t) ==
  LET says[depth \in 0..MaxOpen] ==
        [file \in DOMAIN t |-> Joined(LinesSay(t, IF depth = 0 THEN << >> ELSE says[depth - 1], file),
                                      Len(t[file]))]
  IN says

(* Of the entries for a key the last one counts.                           *)
Keys(s) == {s[i].key : i \in DOMAIN s}
LastFor(s, key) == Max({i \in DOMAIN s : s[i].key = key})
Over(o, s) ==
  [key \in DOMAIN o \cup Keys(s) |-> IF key \in Keys(s) THEN s[LastFor(s, key)].value ELSE o[key]]

Said == Over(<< >>, Says(tree)[MaxOpen - 1][Resolve(asked.dir, asked.path)])

(* load_from_file() that returns leaves the process in the directory it was
   called in and, on POSIX, in options exactly what the file and the files
   it includes say, nothing of an earlier load, whatever directories the
   includes went through: the queries answer by the last line for a key.   *)
ConfigMeaning ==
  outcome = "loaded" =>
    /\ cwd = asked.dir
    /\ host = "posix" =>
         \A key \in DOMAIN Said \cup DOMAIN options :
           /\ key \in DOMAIN Said
           /\ key \in section_options(key[1])
           /\ value_string(key[1], key[2], "default") = Said[key]
           /\ value_bool(key[1], key[2], TRUE) = (Said[key] \in {"YES", "ON", "TRUE", "1"})

(* "load all files (by wildcard) specified in @include" (app_config.cpp:68):
   options hold what every matching file says.                             *)
AllIncluded ==
  outcome = "loaded" => options = Said

-----------------------------------------------------------------------------
(* The inductive invariant, of the calls in progress.  A call works in the
   directory in which the call below it looked its names up; busy is 1 when a
   call above it is running.                                               *)
Base(dir, calls, i) == IF i = 1 THEN dir ELSE calls[i - 1].file.dir
Busy(calls, i) == IF i < Len(calls) THEN 1 ELSE 0

CallOK(t, c, busy, base) ==
  /\ DOMAIN c = {"path", "file", "at", "section", "todo", "within", "tmp"}
  /\ c.file \in DOMAIN t /\ c.at \in 1..(Len(t[c.file]) + 1) /\ c.within \in BOOLEAN
  /\ c.file.dir = base \o c.path.dir
  /\ c.within => c.tmp = base /\ c.at > 1 /\ t[c.file][c.at - 1].kind = "include"
  /\ busy = 1 => c.within

IsList(s) == s \in Seq({s[i] : i \in DOMAIN s})
CallsOK(t, dir, calls) ==
  /\ IsList(calls) /\ Len(calls) <= MaxOpen
  /\ \A i \in DOMAIN calls : CallOK(t, calls[i], Busy(calls, i), Base(dir, calls, i))

(* What a call has read: lines, and files of the include it is in.         *)
Names(t, c) == Matching(t, c.file.dir, t[c.file][c.at - 1].pattern)
Opened(t, c) == Len(Names(t, c)) - Len(c.todo)
ReadingOK(t, c, busy) ==
  /\ c.section = SectionAt(t[c.file], c.at)
  /\ c.within => /\ Opened(t, c) \in busy..Len(Names(t, c))
                 /\ c.todo = SubSeq(Names(t, c), Opened(t, c) + 1, Len(Names(t, c)))

CallsRead(t, calls) ==
  /\ \A i \in DOMAIN calls : ReadingOK(t, calls[i], Busy(calls, i))
  /\ \A i \in 1..(Len(calls) - 1) :
       calls[i + 1].file = Resolve(calls[i].file.dir, Names(t, calls[i])[Opened(t, calls[i])])

Above(t, i) == IF i = MaxOpen THEN << >> ELSE Says(t)[MaxOpen - i - 1]
ReadBy(t, i, c, busy) ==
  IF c.within
  THEN Joined(LinesSay(t, Above(t, i), c.file), c.at - 2)
       \o Joined(Included(Above(t, i), c.file.dir, Names(t, c)), Opened(t, c) - busy)
  ELSE Joined(LinesSay(t, Above(t, i), c.file), c.at - 1)
ReadSoFar(t, calls) ==
  Joined([i \in DOMAIN calls |-> ReadBy(t, i, calls[i], Busy(calls, i))], Len(calls))

ConfigInv ==
  /\ tree \in ConfigTrees /\ CallsOK(tree, asked.dir, frames)
  /\ frames # <<>> => /\ outcome = "none" /\ frames[1].file = Resolve(asked.dir, asked.path)
                      /\ cwd = IF Running.within THEN Running.file.dir
                               ELSE Base(asked.dir, frames, Len(frames))
  /\ outcome = "loaded" => cwd = asked.dir
  /\ host = "posix" =>
       /\ CallsRead(tree, frames)
       /\ frames # <<>> => options = Over(<< >>, ReadSoFar(tree, frames))
       /\ outcome = "loaded" => options = Said /\ Resolve(asked.dir, asked.path) \in DOMAIN tree

ConfigSpec == ConfigInit /\ [][ConfigNext]_cfgVars

=============================================================================
