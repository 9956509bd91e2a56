------------------------------- MODULE Parsers -------------------------------
(***************************************************************************)
(* What is written in a notation of its own: the command line of a process, *)
(* the parameters of an SQL statement, the files of MIME types, the address *)
(* of a socket and the root directory of a Win32 program.  As in Text, a    *)
(* text is a sequence of characters and each parser an operator.            *)
(***************************************************************************)
EXTENDS Text

CONSTANTS CommandArgs,       \* arguments of a process, without \ and "
          MaxParsed,         \* how many arguments, SQL parts, lines or steps
          SqlParts,          \* what a statement is made of
          MimeLines,         \* lines of a file of MIME types
          FileNameTexts,     \* names of files to find the type of
          HostTexts, PortTexts, KnownHosts,
          PathSteps          \* names of the directories of a program

Cat(texts) == FlattenSeq(texts)

-----------------------------------------------------------------------------
(* str2argv(): s is SYMBOL, SKIP after a '\', SKIP_UNTIL after a '"'.      *)
Push(a) == [a EXCEPT !.argv = Append(@, a.arg), !.arg = <<>>]
Add(a, c) == [a EXCEPT !.arg = Append(@, c), !.s = IF @ = "SKIP" THEN "SYMBOL" ELSE @]
ScanArg(a, c) ==
  CASE c = "\\" -> [a EXCEPT !.s = "SKIP"]
    [] c = "\"" -> [a EXCEPT !.s = IF @ = "SKIP_UNTIL" THEN "SYMBOL" ELSE "SKIP_UNTIL"]
    [] c = " " /\ a.s = "SYMBOL" -> Push(a)
    [] OTHER -> Add(a, c)
str2argv(src) ==
  LET a == FoldLeft(ScanArg, [s |-> "SYMBOL", arg |-> <<>>, argv |-> <<>>], src)
  IN IF a.arg # <<>> THEN Push(a).argv ELSE a.argv

(* query::parse(): names of parameters are made of the characters of NameChars. *)
NameChars == {"n", "1", "_"}
RECURSIVE sql_from(_, _, _, _)
sql_from(s, i, ssq, dsq) ==
  LET c    == s[i]
      name == SpanOf(s, i + 1, NameChars)
      Rest(params, q, next, ss, ds) ==
        LET rest == sql_from(s, next, ss, ds) IN [params |-> params \o rest.params, q |-> q \o rest.q]
  IN CASE i > Len(s) -> [params |-> <<>>, q |-> <<>>]
       [] i <= Len(s) ->
          CASE c = "'"  -> Rest(<<>>, <<c>>, i + 1, ~ssq, dsq)
            [] c = "\"" -> Rest(<<>>, <<c>>, i + 1, ssq, ~dsq)
            [] c = "?" /\ ~ssq /\ ~dsq -> Rest(<<<<>>>>, <<c>>, i + 1, ssq, dsq)
            [] c = ":" /\ ~ssq /\ ~dsq -> Rest(<<name>>, <<"?">>, i + 1 + Len(name), ssq, dsq)
            [] OTHER -> Rest(<<>>, <<c>>, i + 1, ssq, dsq)
sql_parse(statement) == sql_from(statement, 1, FALSE, FALSE)

(* mimetype: the lines of the system's file, then those of the user's.     *)
MimeBlanks == {" "}
register_type(mime, ext, type) == [e \in DOMAIN mime \cup {ext} |-> IF e = ext THEN type ELSE mime[e]]
LoadLine(mime, text) ==
  LET line == trim(text, Blanks)
      pos  == find_first_of(line, MimeBlanks, 2)
      exts == tokenize(trim(SubSeq(line, pos + 1, Len(line)), Blanks), MimeBlanks)
  IN IF line = <<>> THEN mime
     ELSE IF line[1] \in {"#", ";"} \/ pos = 0 THEN mime
     ELSE FoldLeft(LAMBDA m, ext : register_type(m, ext, SubSeq(line, 1, pos - 1)),
                   mime, SelectSeq(exts, LAMBDA ext : ext # <<>>))
mime_load(mime, lines) == FoldLeft(LoadLine, mime, lines)
DefaultType == <<"text/plain">>
mimetype(mime, filename) ==
  LET ext == token_pair(filename, TRUE, {"."}, <<<<>>, <<>>>>)[2]
  IN IF ext \in DOMAIN mime THEN mime[ext] ELSE DefaultType

(* socket_address::parse(): a[0] of no and a[1] of one field are undefined. *)
Resolved(host) == IF host \in {<<>>, <<"*">>} THEN <<>> ELSE <<host>>
address(addr) ==
  LET a == tokenize(addr, {":"}) IN
  CASE a = <<>> -> [is |-> "undefined"]
    [] a # <<>> ->
       CASE Resolved(a[1]) # <<>> /\ a[1] \notin KnownHosts -> [is |-> "throws"]
         [] OTHER -> IF Len(a) = 1 THEN [is |-> "undefined"]
                     ELSE [is |-> "address", host |-> a[1], addresses |-> Resolved(a[1]), port |-> AsInt(a[2])]

(* filefs::get_root_dir() of Win32: the directory of the program, without a
   last one that is called bin.                                            *)
PathDelims == {"/", "\\"}
get_root_dir(path) ==
  LET dir  == token_pair(path, TRUE, PathDelims, <<<<>>, <<>>>>)[1]
      last == token_pair(dir, TRUE, PathDelims, <<<<>>, <<>>>>)
  IN IF last[2] = <<"bin">> THEN last[1] ELSE dir
(* get_locale_dir(), get_system_config_dir() and get_data_dir().           *)
dirs(path) ==
  << get_root_dir(path) \o <<"\\", "share", "\\", "locale">>, get_root_dir(path) \o <<"\\", "etc">>,
     get_root_dir(path) \o <<"\\", "share">> >>

-----------------------------------------------------------------------------
(* How things are written.                                                 *)
ArgText(arg, quoted) ==
  IF quoted THEN <<"\"">> \o arg \o <<"\"">>
  ELSE Cat([k \in DOMAIN arg |-> IF arg[k] = " " THEN <<"\\", " ">> ELSE <<arg[k]>>])
CommandText(args, quoted) ==
  Cat([k \in DOMAIN args |-> (IF k > 1 THEN <<" ">> ELSE <<>>) \o ArgText(args[k], quoted[k])])

SqlText(part) ==
  CASE part.kind = "text" -> part.text
    [] part.kind = "mark" -> <<"?">>
    [] part.kind = "name" -> <<":">> \o part.text \o <<" ">>
    [] part.kind = "literal" -> <<part.quote>> \o part.text \o <<part.quote>>

Steps == UNION { [1..n -> PathSteps] : n \in 1..MaxParsed }
PathText(steps) == Cat([k \in DOMAIN steps |-> <<"\\", steps[k]>>])

Command(args, quoted) ==
  textCall' = [op |-> "argv", arg |-> args, is |-> str2argv(CommandText(args, quoted))]
Prepare(parts) ==
  textCall' = [op |-> "sql", arg |-> parts, is |-> sql_parse(Cat([k \in DOMAIN parts |-> SqlText(parts[k])]))]
FindType(system, home, name) ==
  textCall' = [op |-> "mime", arg |-> [lines |-> system \o home, name |-> name],
               is |-> mimetype(mime_load(mime_load(<<>>, system), home), name)]
Address(host, port) ==
  textCall' = [op |-> "address", arg |-> [host |-> host, port |-> port], is |-> address(host \o port)]
Root(steps) == textCall' = [op |-> "root", arg |-> steps, is |-> dirs(PathText(steps))]

ParserNext ==
  \/ TextNext
  \/ /\ textCall.op = "none"
     /\ \/ \E args \in BoundedSeq(CommandArgs, MaxParsed) : \E quoted \in [DOMAIN args -> BOOLEAN] :
             Command(args, quoted)
        \/ \E parts \in BoundedSeq(SqlParts, MaxParsed) : Prepare(parts)
        \/ \E system \in BoundedSeq(MimeLines, 2), home \in BoundedSeq(MimeLines, 1), name \in FileNameTexts :
             FindType(system, home, name)
        \/ \E host \in HostTexts, port \in PortTexts : Address(host, port)
        \/ \E steps \in Steps : Root(steps)

-----------------------------------------------------------------------------
(* The arguments that were written, but for an empty one at the end.       *)
ArgvMeaning(args, r) == r = IF args # <<>> /\ Last(args) = <<>> THEN Front(args) ELSE args

(* Every ? and every :name outside a literal is a parameter, in order; the
   statement has a ? for each and is otherwise what was written.  (A literal
   that holds a quote of the other kind ends nothing and is left out.)     *)
OtherQuote(part) == part.kind = "literal" /\ Contains(part.text, IF part.quote = "'" THEN "\"" ELSE "'")
SqlMeaning(parts, r) ==
  (\A k \in DOMAIN parts : ~OtherQuote(parts[k])) =>
    /\ r.params = LET named == SelectSeq(parts, LAMBDA p : p.kind \in {"mark", "name"})
                  IN [k \in DOMAIN named |-> IF named[k].kind = "name" THEN named[k].text ELSE <<>>]
    /\ r.q = Cat([k \in DOMAIN parts |->
                       IF parts[k].kind = "name" THEN <<"?", " ">> ELSE SqlText(parts[k])])

(* The type of the last line that names the extension: the user's file comes
   after the system's.  A name without a dot is its own extension.         *)
Words(text) == SelectSeq(tokenize(text, MimeBlanks), LAMBDA w : w # <<>>)
MimeMeaning(lines, name, r) ==
  LET dot  == SelectLastInSeq(name, LAMBDA c : c = ".")
      ext  == SubSeq(name, dot + 1, Len(name))
      says == { k \in DOMAIN lines : LET w == Words(lines[k]) IN
                  /\ w # <<>> => w[1][1] \notin {"#", ";"}
                  /\ \E j \in 2..Len(w) : w[j] = ext }
  IN r = IF says = {} THEN DefaultType
         ELSE Words(lines[CHOOSE k \in says : \A j \in says : j <= k])[1]

(* A host, and a port that is 0 when left empty; an exception for a host that is
   not known.  Without the colon what is returned is undefined.            *)
AddressMeaning(host, port, r) ==
  CASE host \notin KnownHosts \cup {<<>>, <<"*">>} -> r.is = "throws"
    [] OTHER -> port # <<>> => r = [is |-> "address", host |-> host,
                                    addresses |-> IF host \in KnownHosts THEN <<host>> ELSE <<>>,
                                    port |-> NumberOf(Tail(port), 10)]

(* Locale, configuration and data are below the directory above bin, or below
   the one the program is in.                                              *)
RootMeaning(steps, r) ==
  LET root == IF Len(steps) > 1 /\ steps[Len(steps) - 1] = "bin" THEN SubSeq(steps, 1, Len(steps) - 2)
              ELSE Front(steps)
  IN r = [k \in 1..3 |-> PathText(root \o <<<<"share", "locale">>, <<"etc">>, <<"share">>>>[k])]

(* The string functions mean what their documentation says, and what is written
   in a notation of its own is read back: a command line, quoted or escaped, as
   its arguments, an SQL statement as its parameters, the files of MIME types as
   the last word on an extension, an address as host and port.             *)
TextMeaning ==
  /\ StringMeaning
  /\ textCall.op = "argv" => ArgvMeaning(textCall.arg, textCall.is)
  /\ textCall.op = "sql" => SqlMeaning(textCall.arg, textCall.is)
  /\ textCall.op = "mime" => MimeMeaning(textCall.arg.lines, textCall.arg.name, textCall.is)
  /\ textCall.op = "address" => AddressMeaning(textCall.arg.host, textCall.arg.port, textCall.is)
  /\ textCall.op = "root" => RootMeaning(textCall.arg, textCall.is)

(* "the socket address in format "address[:port]"" (socket.h): an address can do
   without a port.                                                         *)
PortOptional ==
  textCall.op = "address" /\ textCall.arg.port = <<>> => textCall.is.is # "undefined"
=============================================================================
