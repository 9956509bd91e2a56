--------------------------------- MODULE Url ---------------------------------
(***************************************************************************)
(* The class url.  A string is a sequence of tokens: the punctuation that  *)
(* the code looks for, and words.                                          *)
(***************************************************************************)
EXTENDS Text

CONSTANTS UrlParts,      \* urls as their parts, to write and to read
          PathElements,  \* words, ".", ".." and "" for nothing between two '/'
          PathLength,
          BasePaths      \* strings

VARIABLE urlCall    \* the last call and its result

(* getservbyname(): the schemes the system knows the port of.              *)
ServicePort == [s \in {<<"http">>, <<"https">>} |-> IF s = <<"http">> THEN 80 ELSE 443]
PortOf(word) == CASE word = "80" -> 80 [] word = "8080" -> 8080 [] OTHER -> 0
PortText(port) == CASE port = 8080 -> "8080" [] port = 443 -> "443" [] OTHER -> "80"

EmptyUrl == [scheme |-> <<>>, user |-> <<>>, password |-> <<>>, host |-> <<>>, port |-> 0,
             path |-> <<>>, query |-> <<>>, fragment |-> <<>>, parameters |-> <<>>]

-----------------------------------------------------------------------------
Pos(t, c) == SelectInSeq(t, LAMBDA x : x = c)
CutAt(t, pos) == IF pos = 0 THEN t ELSE SubSeq(t, 1, pos - 1)
Before(t, c) == CutAt(t, Pos(t, c))
After(t, c) == SubSeq(t, Len(Before(t, c)) + 2, Len(t))

(* The characters of a string.                                             *)
WordLength(w) == CASE w \in {"http", "file", "8080"} -> 4 [] w \in {"app", "443"} -> 3
                   [] w \in {"ws", "80"} -> 2 [] w = "https" -> 5 [] OTHER -> 1
Length(t) == FoldLeft(LAMBDA n, w : n + WordLength(w), 0, t)

(* Two characters are too few for a scheme.                                *)
IsScheme(t, pos) ==
  /\ pos # 0 /\ Length(SubSeq(t, 1, pos - 1)) > 2
  /\ Len(t) >= pos + 2 /\ t[pos + 1] = "/" /\ t[pos + 2] = "/"

(* parse() takes part by part off the string: a cut is the url so far and what
   is left of the string.  A part that the string lacks keeps the value it had. *)
Cut(u, t) == [url |-> u, left |-> t]

TakeScheme(old, t, pos) ==
  IF IsScheme(t, pos) THEN Cut([old EXCEPT !.scheme = SubSeq(t, 1, pos - 1)], SubSeq(t, pos + 3, Len(t)))
  ELSE Cut([old EXCEPT !.scheme = <<>>], t)

TakeServer(u, t, server) ==
  IF u.scheme = <<>> THEN Cut(u, t)
  ELSE Cut([u EXCEPT !.host = server], SubSeq(t, Len(server) + 1, Len(t)))

ByService(u) == [u EXCEPT !.port = IF u.scheme \in DOMAIN ServicePort THEN ServicePort[u.scheme] ELSE @]
TakePassword(u) ==
  IF Contains(u.user, ":") THEN [u EXCEPT !.user = Before(@, ":"), !.password = After(u.user, ":")] ELSE u
TakeLogin(u) ==
  IF Contains(u.host, "@") THEN TakePassword([u EXCEPT !.user = Before(u.host, "@"), !.host = After(@, "@")])
  ELSE u
NumberOrOld(digits, port) == IF digits = <<>> THEN port ELSE PortOf(digits[1])
TakePort(u) ==
  IF Contains(u.host, ":")
  THEN [u EXCEPT !.host = Before(@, ":"), !.port = NumberOrOld(After(u.host, ":"), @)] ELSE u

Marked == << <<"parameters", ";">>, <<"fragment", "#">>, <<"query", "?">> >>
TakePart(cut, field, mark) ==
  IF Contains(cut.left, mark)
  THEN Cut([cut.url EXCEPT ![field] = After(cut.left, mark)], Before(cut.left, mark)) ELSE cut

(* Nothing more is taken off a local file.                                 *)
TakeRest(cut) ==
  IF cut.url.scheme \in {<<>>, <<"file">>} THEN cut
  ELSE FoldLeft(LAMBDA c, part : TakePart(c, part[1], part[2]),
                [cut EXCEPT !.url = TakePort(TakeLogin(ByService(@)))], Marked)

TakePath(u, t) == [u EXCEPT !.path = IF t = <<>> \/ t[1] # "/" THEN <<"/">> \o t ELSE t]

Then(Take(_, _), cut) == Take(cut.url, cut.left)
parse(old, value) ==
  Then(TakePath,
    TakeRest(Then(LAMBDA u, t : TakeServer(u, t, Before(t, "/")),
               TakeScheme(old, value, Pos(value, ":")))))

Part(mark, s) == IF s = <<>> THEN <<>> ELSE <<mark>> \o s
(* Were the parts written in the order that RFC 3986 gives to some of them. *)
Fault_get_full_path(u) ==
  u.path \o Part(";", u.parameters) \o Part("?", u.query) \o Part("#", u.fragment)

get_full_path(u) ==
  u.path \o Part("?", u.query) \o Part("#", u.fragment) \o Part(";", u.parameters)

(* str(): the '@' is written with a password only, and a port only for a
   scheme with a service port that differs.                                *)
str(u) ==
  LET port == IF u.scheme \in DOMAIN ServicePort /\ u.port > 0 /\ u.port # ServicePort[u.scheme]
              THEN <<":", PortText(u.port)>> ELSE <<>>
      all == (IF u.scheme # <<>> THEN u.scheme \o <<":", "/", "/">> ELSE <<>>)
             \o u.user \o (IF u.user # <<>> /\ u.password # <<>>
                           THEN <<":">> \o u.password \o <<"@">> ELSE <<>>)
             \o u.host \o (IF u.host # <<>> THEN port ELSE <<>>) \o get_full_path(u)
  IN IF all = <<>> THEN <<"/">> ELSE all

(* copy_from(): the parts that u has replace ours.                         *)
copy_from(mine, u) ==
  [f \in DOMAIN mine |-> IF u[f] = EmptyUrl[f] THEN mine[f] ELSE u[f]]

(* normalize(): from the end, "..": skip the next name; an empty element ends
   the walk.                                                               *)
RECURSIVE normalize_from(_, _, _)
normalize_from(v, skip, path) ==
  IF v = <<>> THEN path
  ELSE LET rest == Front(v) IN
       CASE Last(v) = <<".", ".">> -> normalize_from(rest, skip + 1, path)
         [] Last(v) = <<".">>      -> normalize_from(rest, skip, path)
         [] Last(v) = <<>>         -> path
         [] Last(v) \notin {<<>>, <<".">>, <<".", ".">>} ->
              IF skip > 0 THEN normalize_from(rest, skip - 1, path)
              ELSE normalize_from(rest, skip, <<"/">> \o Last(v) \o path)

(* The path without its first '/' is put behind the base as it is.         *)
normalize(path, base_path) ==
  LET own == IF path # <<>> /\ path[1] \in {"/", "\\"} THEN Tail(path) ELSE path
  IN normalize_from(tokenize(base_path \o own, {"/"}), 0, <<>>)

-----------------------------------------------------------------------------
UrlInit == urlCall = [op |-> "none"]

Spelled(e) == CASE e = ".." -> <<".", ".">> [] e = "" -> <<>> [] OTHER -> <<e>>
PathOf(elements) == FoldLeft(LAMBDA s, e : s \o <<"/">> \o Spelled(e), <<>>, elements)

UrlNext ==
  /\ urlCall.op = "none"
  /\ \/ \E u \in UrlParts : urlCall' = [op |-> "reparse", arg |-> u, is |-> parse(EmptyUrl, str(u))]
     \/ \E u, w \in UrlParts : urlCall' = [op |-> "copy", arg |-> <<u, w>>, is |-> copy_from(u, w)]
     \/ \E p \in BoundedSeq(PathElements, PathLength), base \in BasePaths :
          urlCall' = [op |-> "normalize", arg |-> <<p, base>>, is |-> normalize(PathOf(p), base)]

-----------------------------------------------------------------------------
(* Where a path leads, walked from a directory; ".." at the root stays there. *)
Walk(from, p) ==
  FoldLeft(LAMBDA at, e : CASE e = ".." /\ at # <<>> -> Front(at)
                            [] e \in {"", "."} \/ (e = ".." /\ at = <<>>) -> at
                            [] OTHER -> Append(at, e), from, p)

(* ".." elements at the root, which a walk from the end does not notice.   *)
AboveRoot(from, p) ==
  \E k \in DOMAIN p : /\ p[k] = ".."
                      /\ Walk(from, SubSeq(p, 1, k - 1)) = <<>>

(* A directory is written with a '/' behind it: without one its last name and
   the first of the path become one.  That of the empty base is the root.  *)
IsDirectory(base) == base = <<>> \/ Last(base) = "/"
DirectoryOf(base) == SelectSeq(base, LAMBDA c : c # "/")

(* The urls that str() writes in full: there is a host, a user has a password,
   the scheme is one that parse() takes for one, and has a service port or the
   url has no port; a local file has a path only.                          *)
Writable(u) ==
  /\ u.host # <<>> /\ (u.user # <<>> <=> u.password # <<>>)
  /\ Length(u.scheme) > 2 /\ (u.port # 0 <=> u.scheme \in DOMAIN ServicePort)
  /\ u.scheme = <<"file">> => u.user \o u.query \o u.fragment \o u.parameters = <<>>

(* str() and parse() are inverse on such urls; copy_from() twice is once; and
   normalize() leads where the path leads from the directory of the base, name
   by name, when no element of the path is empty and ".." stays below the root. *)
UrlMeaning ==
  CASE urlCall.op = "reparse" ->
         Writable(urlCall.arg) => urlCall.is = urlCall.arg
    [] urlCall.op = "copy" ->
         /\ copy_from(urlCall.is, urlCall.arg[2]) = urlCall.is
         /\ \A f \in DOMAIN urlCall.is : urlCall.is[f] \in {urlCall.arg[1][f], urlCall.arg[2][f]}
    [] urlCall.op = "normalize" ->
         LET p == urlCall.arg[1]
             base == urlCall.arg[2]
         IN p # <<>> /\ ~Contains(p, "") /\ IsDirectory(base) /\ ~AboveRoot(DirectoryOf(base), p)
              => urlCall.is = PathOf(Walk(DirectoryOf(base), p))
    [] OTHER -> urlCall.op = "none"

(* "Expands URL from relative path to absolute path, eleminating all '.', '..',
   '//' sequences" (url.h:88): "//" inside a path is one '/'.               *)
SlashesEliminated ==
  urlCall.op = "normalize" =>
    LET p == urlCall.arg[1]
        base == urlCall.arg[2]
    IN p # <<>> /\ Last(p) # "" /\ p[1] # "" /\ IsDirectory(base) /\ ~AboveRoot(DirectoryOf(base), p)
         => urlCall.is = PathOf(Walk(DirectoryOf(base), p))
=============================================================================
