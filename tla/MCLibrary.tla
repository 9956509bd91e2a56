------------------------------ MODULE MCLibrary ------------------------------
(* Small instances of the modules on single objects and calls.  A behaviour *)
(* exercises one component, the one in focus; the others rest.              *)
EXTENDS MCObjects, Parsers, Web, Url, Codecs, Md5, Sockets, Extensions, AppConfig

VARIABLE focus

Components == {"text", "url", "codec", "md5", "web", "sockets", "extensions", "config", "objects"}

-----------------------------------------------------------------------------
(* Text                                                                    *)
TemplateSamples == BoundedSeq({"x", "{0}", "{1}"}, 3)
NumeralSamples ==
  [sign: {<<>>, <<"-">>, <<"+">>}, whole: {<<>>, <<"0">>, <<"2", "1">>}, decs: {<<>>, <<"0", "2">>},
   esign: {<<>>, <<"-">>}, power: {<<>>, <<"2">>, <<"6">>, <<"1", "2">>, <<"2", "0">>}]
SmallMinExp == -15
SmallLeastPower == -5
CasedSamples == BoundedSeq({"a", "A", "b", "1"}, 2)

(* Parsers                                                                 *)
SqlSamples ==
  { [kind |-> "text", text |-> <<"x">>], [kind |-> "mark"], [kind |-> "name", text |-> <<"n", "1">>],
    [kind |-> "name", text |-> <<>>], [kind |-> "literal", quote |-> "'", text |-> <<"?", ":", "n">>],
    [kind |-> "literal", quote |-> "\"", text |-> <<"?">>], [kind |-> "literal", quote |-> "'", text |-> <<"\"">>] }
ArgSamples == BoundedSeq({"a", " "}, 2)
NameSamples == BoundedSeq({"e", "f", "."}, 3)
HostSamples == {<<>>, <<"*">>, <<"h">>, <<"u">>}
PortSamples == {<<>>, <<":">>, <<":", "2", "1">>, <<":", "6">>}
Hosts == {<<"h">>}
MimeSamples ==
  { <<" ", "t1", " ", " ", "e", " ", "f">>, <<"t2", " ", "e", " ">>, <<"#", "t2", " ", "e">>, <<"t2">>, <<" ">> }

(* Url: a known, a local, an unknown, too short and no scheme.             *)
UrlSamples ==
  { u \in [scheme: {<<"http">>, <<"file">>, <<"app">>, <<"ws">>, <<>>}, user: {<<>>, <<"u">>},
           password: {<<>>, <<"p">>}, host: {<<>>, <<"h">>}, port: {0, 80, 8080},
           path: {<<"/">>, <<"/", "a", "/", "b">>}, query: {<<>>, <<"q", "/">>},
           fragment: {<<>>, <<"f">>}, parameters: {<<>>, <<"x", "?">>}] :
      /\ u.port = 80 => u.scheme = <<"http">>
      /\ u.scheme # <<"http">> => u.user = <<>> /\ u.path = <<"/">> /\ u.fragment = <<>>
      /\ u.fragment # <<>> => u.user # <<>> }
Bases == {<<>>, <<"/">>, <<"/", "r", "/">>, <<"/", "r">>}

(* Codecs                                                                  *)
Uuids == { [k \in 1..16 |-> (a * k + b) % 256] : a \in {0, 17, 130}, b \in {0, 5, 255} }

TestSuite ==
  {<<>>, <<97>>, <<97, 98, 99>>, <<109, 101, 115, 115, 97, 103, 101, 32, 100, 105, 103, 101, 115, 116>>,
   <<97, 98, 99, 100, 101, 102, 103, 104, 105, 106, 107, 108, 109, 110, 111, 112, 113, 114, 115, 116, 117, 118, 119, 120, 121, 122>>}
PublishedDigests == [m \in TestSuite |->
  CASE m = <<>> ->
       <<212, 29, 140, 217, 143, 0, 178, 4, 233, 128, 9, 152, 236, 248, 66, 126>>
  [] m = <<97>> ->
       <<12, 193, 117, 185, 192, 241, 182, 168, 49, 195, 153, 226, 105, 119, 38, 97>>
  [] m = <<97, 98, 99>> ->
       <<144, 1, 80, 152, 60, 210, 79, 176, 214, 150, 63, 125, 40, 225, 127, 114>>
  [] m = <<109, 101, 115, 115, 97, 103, 101, 32, 100, 105, 103, 101, 115, 116>> ->
       <<249, 107, 105, 125, 124, 183, 147, 141, 82, 90, 47, 49, 170, 241, 97, 208>>
  [] m = <<97, 98, 99, 100, 101, 102, 103, 104, 105, 106, 107, 108, 109, 110, 111, 112, 113, 114, 115, 116, 117, 118, 119, 120, 121, 122>> ->
       <<195, 252, 211, 215, 97, 146, 228, 0, 125, 251, 73, 108, 202, 103, 225, 59>>]

(* Md5: messages of every length up to three blocks and a byte.            *)
MessageSamples == { [i \in 1..n |-> i] : n \in 0..13 }

(* Web: a form and other requests; cookies with and without attributes.    *)
FormBody == <<"n", "=", "+", "&", "m", "=", "%25">>
Requests ==
  { r \in [method: {"GET", "HEAD"},
           headers: {<<>>, <<<<"X-Tag", <<"1">>>>, <<"x-tag", <<"2">>>>>>},
           cookies: {<<>>, <<"s", "=", "1", ";", " ", "t", "=", "2">>},
           ctype: {<<"text/plain">>, <<"application/x-www-form-urlencoded", ";", "utf">>},
           body: {<<>>, <<"b">>, FormBody}] :
      /\ (r.ctype[1] = "text/plain") = (r.body # FormBody)
      /\ r.method = "HEAD" => r.headers = <<>> }
Cookies ==
  { [NewCookie EXCEPT !.name = <<"s">>, !.value = <<"1">>, !.expires = 2, !.path = <<"/">>, !.secure = TRUE],
    [NewCookie EXCEPT !.name = <<"t">>, !.same_site = <<"Lax">>, !.partitioned = TRUE],
    [NewCookie EXCEPT !.name = <<"u">>, !.http_only = TRUE] }
Bodies == {<<>>, <<"x">>}

(* Extensions: a whole library and one that lacks a symbol.                *)
PluginLibraries ==
  { [name |-> "a", exports |-> {"init", "create_object", "destroy_object", "finalize"}],
    [name |-> "b", exports |-> {"init", "destroy_object", "finalize"}] }

(* AppConfig: includes by wildcard in another directory, a cycle, one file. *)
File(d, b) == [dir |-> d, base |-> b]
OptionIs(n, v) == [kind |-> "option", name |-> n, value |-> v]
Section(n) == [kind |-> "section", name |-> n]
Include(d, b) == [kind |-> "include", pattern |-> File(d, b)]
NestedTree ==
  [f \in {File(<<"etc">>, 1), File(<<"etc">>, 2), File(<<"etc", "d">>, 1),
          File(<<"etc", "d">>, 2), File(<<"etc", "d">>, 3)} |->
     CASE f = File(<<"etc">>, 1) ->
            <<[kind |-> "skip"], Section("a"), Include(<<"d">>, 0), OptionIs("x", "ON"), Include(<<>>, 2)>>
       [] f = File(<<"etc", "d">>, 1) ->
            <<Section("a"), OptionIs("x", "no"), OptionIs("y", "YES"), Include(<<>>, 2)>>
       [] f = File(<<"etc", "d">>, 2) -> <<Section("c"), OptionIs("w", "1")>>
       [] f = File(<<"etc", "d">>, 3) -> <<OptionIs("x", "1"), Section("b"), OptionIs("y", "no")>>
       [] f = File(<<"etc">>, 2) -> <<Section("b"), OptionIs("y", "2")>>]
CyclicTree ==
  [f \in {File(<<>>, 1), File(<<"etc">>, 1)} |->
     IF f = File(<<>>, 1) THEN <<OptionIs("x", "0"), Include(<<"etc">>, 1)>>
     ELSE <<Section("a"), OptionIs("x", "TRUE"), Include(<<>>, 1)>>]
PlainTree ==
  [f \in {File(<<"etc">>, 1), File(<<"etc", "d">>, 1)} |->
     IF f = File(<<"etc">>, 1) THEN <<Section("a"), Include(<<"d">>, 0), OptionIs("z", "ON")>>
     ELSE <<OptionIs("z", "no")>>]
Trees == {NestedTree, CyclicTree, PlainTree}
FileNames == {File(<<>>, 1), File(<<"etc">>, 1)}

-----------------------------------------------------------------------------
Resting(c, start) == focus # c => start

Init ==
  /\ focus \in Components
  /\ TextInit /\ UrlInit
  /\ CodecInit /\ md5 \in MD5Starts /\ Resting("md5", md5 = CHOOSE m \in MD5Starts : TRUE)
  /\ WebInit /\ Resting("web", web = CHOOSE w \in WebStarts : TRUE)
  /\ SockInit
  /\ ExtInit /\ Resting("extensions", loader = "posix")
  /\ ConfigInit /\ Resting("config", host = "posix" /\ tree = PlainTree)
  /\ ObjectsInit
  /\ Resting("objects",
       /\ use = "any" /\ fd.system = (CHOOSE s \in Systems : TRUE) /\ fd.flags
       /\ build = [how |-> CHOOSE b \in Builds : TRUE, arity |-> CHOOSE n \in Arities : TRUE]
       /\ time = [th \in TimeThreads |-> mktime(Moment(1, 1, 3))])

Next ==
  /\ UNCHANGED focus
  /\ \/ /\ focus = "text" /\ ParserNext
        /\ UNCHANGED <<urlCall, codecCall, md5, web, sockVars, extVars, cfgVars, objectVars>>
     \/ /\ focus = "url" /\ UrlNext
        /\ UNCHANGED <<textCall, codecCall, md5, web, sockVars, extVars, cfgVars, objectVars>>
     \/ /\ focus = "codec" /\ CallCodec
        /\ UNCHANGED <<textCall, urlCall, md5, web, sockVars, extVars, cfgVars, objectVars>>
     \/ /\ focus = "md5" /\ MD5Next
        /\ UNCHANGED <<textCall, urlCall, codecCall, web, sockVars, extVars, cfgVars, objectVars>>
     \/ /\ focus = "web" /\ WebNext
        /\ UNCHANGED <<textCall, urlCall, codecCall, md5, sockVars, extVars, cfgVars, objectVars>>
     \/ /\ focus = "sockets" /\ SockNext
        /\ UNCHANGED <<textCall, urlCall, codecCall, md5, web, extVars, cfgVars, objectVars>>
     \/ /\ focus = "extensions" /\ ExtNext
        /\ UNCHANGED <<textCall, urlCall, codecCall, md5, web, sockVars, cfgVars, objectVars>>
     \/ /\ focus = "config" /\ ConfigNext
        /\ UNCHANGED <<textCall, urlCall, codecCall, md5, web, sockVars, extVars, objectVars>>
     \/ /\ focus = "objects" /\ ObjectsNext
        /\ UNCHANGED <<textCall, urlCall, codecCall, md5, web, sockVars, extVars, cfgVars>>

Spec == Init /\ [][Next]_<<focus, textCall, urlCall, codecCall, md5, web, sockVars, extVars, cfgVars, objectVars>>
=============================================================================
