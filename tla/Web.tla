--------------------------------- MODULE Web ---------------------------------
(***************************************************************************)
(* HTTP messages (http_header, http_cookie, http_content_parser) and the    *)
(* three back ends that carry them between a web server and the handler of  *)
(* an application: cgi_application, apache_application, isapi_application.  *)
(* Texts are sequences of words and punctuation, as in Text; a content is a *)
(* sequence of such tokens, each standing for a byte.                       *)
(***************************************************************************)
EXTENDS Text

CONSTANTS WebServers,       \* of "cgi", "apache", "isapi"
          ClientRequests,   \* [method, headers, cookies, ctype, body]
          WebCookies, WebBodies, WebStatuses,
          MaxWebCalls       \* calls of the handler on its response

VARIABLE web    \* one exchange, and where it stands

NUL == "nul"
Undefined == "undefined"

-----------------------------------------------------------------------------
(* http_method and http_error: the numbers and the names.                  *)

MethodNames ==
  <<"GET", "PUT", "POST", "DELETE", "CONNECT", "OPTIONS", "TRACE", "PATCH", "PROPFIND",
    "PROPPATCH", "MKCOL", "COPY", "MOVE", "LOCK", "UNLOCK", "VERSION_CONTROL", "CHECKOUT",
    "UNCHECKOUT", "CHECKIN", "UPDATE", "LABEL", "REPORT", "MKWORKSPACE", "MKACTIVITY",
    "BASELINE_CONTROL", "MERGE", "", "HEAD">>
unknown == 26
method_of(name) ==
  IF name # "" /\ name \in Range(MethodNames)
  THEN (CHOOSE k \in DOMAIN MethodNames : MethodNames[k] = name) - 1 ELSE unknown
method_name(method) == MethodNames[method + 1]

StatusCodes == {100, 101} \cup (200..206) \cup (300..305) \cup {307} \cup (400..417) \cup (500..505)
ASSUME WebAssumption == WebStatuses \subseteq StatusCodes

ok == 200
internal_server_error == 500

(* A number without a phrase would give a string from a null pointer.      *)
get_status(status) == IF status \in StatusCodes THEN status ELSE 0

-----------------------------------------------------------------------------
Each(Op(_), seq) == [k \in DOMAIN seq |-> Op(seq[k])]

(* http_cookie                                                             *)

NewCookie == [name |-> <<>>, value |-> <<>>, expires |-> 0, domain |-> <<>>, path |-> <<>>,
              same_site |-> <<>>, secure |-> FALSE, http_only |-> FALSE, partitioned |-> FALSE]

(* datetime: seconds, 0 without a date.  as_gmt() writes Greenwich time, the
   constructor reads the same text as local time, with an uninitialised flag
   for summer time: offset is what the two make up.                        *)
Dates == <<"day1", "day2", "day3">>
as_gmt(t) == IF t = 0 THEN <<>> ELSE <<Dates[t]>>
datetime(text, offset) == (CHOOSE t \in DOMAIN Dates : as_gmt(t) = text) - offset

(* What a fresh cookie and a write behind a buffer leave to chance.        *)
Clean == [partitioned |-> FALSE, offset |-> 0, spare |-> TRUE]

CookieField(c, p, v, chance) ==
  CASE p = <<"expires">>  -> [c EXCEPT !.expires = datetime(v, chance.offset)]
    [] p = <<"domain">>   -> [c EXCEPT !.domain = v]
    [] p = <<"path">>     -> [c EXCEPT !.path = v]
    [] p = <<"samesite">> -> [c EXCEPT !.same_site = v]
    [] p = <<"secure">>   -> [c EXCEPT !.secure = TRUE]
    [] p = <<"HttpOnly">> -> [c EXCEPT !.http_only = TRUE]
    [] OTHER              -> [c EXCEPT !.name = p, !.value = v]
NameAndValue(field) ==
  LET pair == token_pair(field, FALSE, {"="}, <<<<>>, <<>>>>)
  IN [k \in {1, 2} |-> trim(pair[k], Blanks)]

(* The constructor from a text; partitioned is left uninitialised.         *)
http_cookie(text, chance) ==
  FoldLeft(LAMBDA c, pair : CookieField(c, pair[1], pair[2], chance),
           [NewCookie EXCEPT !.partitioned = chance.partitioned],
           Each(NameAndValue, tokenize(text, {";"})))

Attribute(word, v) == IF v = <<>> THEN <<>> ELSE <<";", " ", word, "=">> \o v
Flag(word, set) == IF set THEN <<";", " ", word>> ELSE <<>>
cookie_str(c) ==
  IF c.name = <<>> THEN <<>>
  ELSE c.name \o <<"=">> \o c.value \o Attribute("expires", as_gmt(c.expires))
       \o Attribute("domain", c.domain) \o Attribute("path", c.path)
       \o Attribute("SameSite", c.same_site) \o Flag("secure", c.secure)
       \o Flag("HttpOnly", c.http_only) \o Flag("Partitioned", c.partitioned)

-----------------------------------------------------------------------------
(* http_header: headers by name in any case, cookies, and the content with a
   0 at its end; Content-Length is kept apart, -1 without one; stray is TRUE
   once a byte behind the end of the content hit something else.           *)

NewMessage == [headers |-> <<>>, cookies |-> <<>>, content |-> <<>>, length |-> -1,
               ctype |-> <<"text/plain">>, method |-> unknown, status |-> ok, stray |-> FALSE]

Lower(key) == CASE key \in {"X-Tag", "X-TAG", "x-tag"} -> "x-tag"
                [] key \in {"Cookie", "COOKIE"} -> "cookie"
                [] key = "Set-Cookie" -> "set-cookie"
                [] OTHER -> key
WithKey(f, k, v) == [x \in DOMAIN f \cup {k} |-> IF x = k THEN v ELSE f[x]]

set_header(m, key, value, chance) ==
  LET texts == IF Lower(key) = "cookie" THEN tokenize(value, {";"}) ELSE <<value>> IN
  IF Lower(key) \in {"cookie", "set-cookie"}
  THEN [m EXCEPT !.cookies = @ \o Each(LAMBDA text : http_cookie(text, chance), texts)]
  ELSE [m EXCEPT !.headers = WithKey(@, Lower(key), value)]

(* http_response: the Allow header.                                        *)
set_allow(m, method) == [m EXCEPT !.headers = WithKey(@, "Allow", <<method_name(method)>>)]
get_allow(m) == IF "Allow" \in DOMAIN m.headers THEN method_of(m.headers["Allow"][1]) ELSE unknown

get_content_size(m) == IF m.content = <<>> THEN 0 ELSE Len(m.content) - 1
Content(m) == SubSeq(m.content, 1, get_content_size(m))

set_content(m, value) ==
  [m EXCEPT !.content = value \o @ \o <<NUL>>, !.length = Len(value)]


(* add_content() of size bytes: room is made for them behind the content, the
   stream gives value and the rest stays 0.  The closing 0 is written one place
   behind the room, where spare says that nothing else is kept.            *)
add_content(m, size, value, spare) ==
  IF size > 0
  THEN [m EXCEPT !.content = Content(m) \o value \o [k \in 1..size - Len(value) |-> NUL] \o <<NUL>>,
                 !.length = get_content_size(m) + size, !.stray = @ \/ ~spare]
  ELSE [m EXCEPT !.content = IF @ = <<>> THEN <<NUL>> ELSE @, !.length = 0]

(* add_content() of what a stream still holds: nothing is done without any. *)
add_stream(m, value, spare) == IF value = <<>> THEN m ELSE add_content(m, Len(value), value, spare)

(* operator<< of a request: the lines of the header, the cookies in one line by
   name and value only, and the content.                                   *)
request_lines(m) ==
  LET keys == SetToSeq(DOMAIN m.headers)
      text == FlattenSeq([k \in DOMAIN m.cookies |->
                (IF k = 1 THEN <<>> ELSE <<";", " ">>) \o m.cookies[k].name \o <<"=">> \o m.cookies[k].value])
  IN [headers |-> [k \in DOMAIN keys |-> <<keys[k], m.headers[keys[k]]>>]
                    \o (IF text = <<>> THEN <<>> ELSE <<<<"Cookie", text>>>>),
      body    |-> Content(m)]

-----------------------------------------------------------------------------
(* http_content_parser: a parser by the content type, the generic one for a
   type that is not registered; multipart/form-data is left unparsed.      *)

Decoded(t) == [k \in DOMAIN t |-> CASE t[k] = "+" -> " " [] t[k] = "%25" -> "%" [] OTHER -> t[k]]
CString(t) == LET end == SelectInSeq(t, LAMBDA b : b = NUL)
              IN IF end = 0 THEN t ELSE SubSeq(t, 1, end - 1)

parse_content(m) ==
  LET ct == trim(token_pair(m.ctype, FALSE, {";"}, <<<<>>, <<>>>>)[1], Blanks)
      pairs == tokenize(CString(m.content), {"&"})
      pair(k) == token_pair(pairs[k], FALSE, {"="}, <<<<>>, <<>>>>)
  IN CASE m.content = <<>> -> <<>>
       [] m.content # <<>> /\ ct = <<"multipart/form-data">> -> <<>>
       [] m.content # <<>> /\ ct = <<"application/x-www-form-urlencoded">> ->
            [k \in DOMAIN pairs |-> <<Decoded(pair(k)[1]), Decoded(pair(k)[2])>>]
       [] OTHER -> IF get_content_size(m) > 0 THEN <<<<<<"content">>, Content(m)>>>> ELSE <<>>

-----------------------------------------------------------------------------
(* get_request() of the back ends.  A web server hands over the fields of the
   request and the bytes of its body that arrived.                         *)

Fields(r, chance) ==
  FoldLeft(LAMBDA m, h : set_header(m, h[1], h[2], chance),
           [NewMessage EXCEPT !.method = method_of(r.method), !.ctype = r.ctype],
           r.headers \o (IF r.cookies = <<>> THEN <<>> ELSE <<<<"Cookie", r.cookies>>>>))

cgi_get_request(m, size, got, spare) == IF size > 0 THEN add_content(m, size, got, spare) ELSE m

apache_get_request(m, got) == IF got # <<>> THEN set_content(m, got) ELSE m

(* The buffer has the size of the body, whatever ReadClient() filled in.   *)
isapi_get_request(m, size, got) ==
  IF size > 0 THEN set_content(m, got \o [k \in 1..size - Len(got) |-> Undefined]) ELSE m

WithBody(server, m, size, got, spare) ==
  CASE server = "cgi"    -> cgi_get_request(m, size, got, spare)
    [] server = "apache" -> apache_get_request(m, got)
    [] server = "isapi"  -> isapi_get_request(m, size, got)
get_request(server, r, got, chance) ==
  WithBody(server, Fields(r, chance), Len(r.body), got, chance.spare)

-----------------------------------------------------------------------------
(* send_response(): what leaves for the client.                            *)

Sent(m, cookies, status) ==
  [status |-> status, headers |-> m.headers, ctype |-> m.ctype, cookies |-> cookies,
   body |-> Content(m), length |-> m.length]

CookieTexts(m) == [k \in DOMAIN m.cookies |-> cookie_str(m.cookies[k])]

cgi_send_response(m) == { Sent(m, CookieTexts(m), get_status(m.status)) }

(* apr_table_set() replaces what the table has under the same name.        *)
apache_send_response(m) ==
  { [Sent(m, IF m.cookies = <<>> THEN <<>> ELSE <<Last(CookieTexts(m))>>, m.status)
       EXCEPT !.length = Len(Content(m))] }

(* pszStatus points into a string that is gone when the server reads it.   *)
isapi_send_response(m) == { Sent(m, CookieTexts(m), s) : s \in {get_status(m.status), 0} }

send_response(server, m) ==
  CASE server = "cgi"    -> cgi_send_response(m)
    [] server = "apache" -> apache_send_response(m)
    [] server = "isapi"  -> isapi_send_response(m)

-----------------------------------------------------------------------------
(* What handle_request() returns to its server.                            *)
result(server, m) ==
  CASE server = "apache" -> IF m.status = ok THEN "OK" ELSE "status"
    [] server = "isapi"  -> IF m.status = internal_server_error THEN "HSE_STATUS_ERROR"
                            ELSE "HSE_STATUS_SUCCESS"
    [] OTHER             -> "0"

(* httpd adds its own document for the status to what the handler wrote, and
   clears the headers that have not left yet.  The others let it be.        *)
ErrorDocument == "error document"
Served(rslt, s) ==
  IF rslt # "status" THEN {s}
  ELSE { [s EXCEPT !.body = Append(@, ErrorDocument), !.length = @ + 1],
         [s EXCEPT !.body = Append(@, ErrorDocument), !.length = @ + 1,
                   !.headers = <<>>, !.cookies = <<>>] }

-----------------------------------------------------------------------------
NewResponse == [NewMessage EXCEPT !.ctype = <<"text/plain", ";", "charset">>]

(* A history of the exchange: what the handler meant to answer; set is FALSE
   until it gave a content, again TRUE once it set one over another.       *)
Nothing == [body |-> <<>>, set |-> FALSE, again |-> FALSE, cookies |-> <<>>, tag |-> "", status |-> ok]

WebStarts ==
  [server: WebServers, phase: {"ask"}, asked: ClientRequests, got: {<<>>},
   req: {NewMessage}, made: {NewResponse}, meant: {Nothing}, resp: {NewResponse}, sent: {<<>>},
   calls: {0}, thrown: {"no"}, rslt: {""}, registered: [request: BOOLEAN, exception: BOOLEAN]]

WebInit == web \in WebStarts

(* handle_request() or run(): without a handler the back ends of apache and
   IIS decline before they read, and CGI answers nothing.                  *)
Receive ==
  /\ web.phase = "ask" /\ (web.registered.request \/ web.server = "cgi")
  /\ \E n \in 0..Len(web.asked.body), p, spare \in BOOLEAN :
       LET got == SubSeq(web.asked.body, 1, n)
           chance == [partitioned |-> p, offset |-> 0, spare |-> spare]
       IN web' = [web EXCEPT !.phase = IF web.registered.request THEN "handle" ELSE "unanswered",
                             !.got = got, !.req = get_request(web.server, web.asked, got, chance)]

Decline ==
  /\ web.phase = "ask" /\ ~web.registered.request /\ web.server # "cgi"
  /\ web' = [web EXCEPT !.phase = "unanswered",
                        !.rslt = IF web.server = "apache" THEN "DECLINED" ELSE "HSE_STATUS_ERROR"]

(* isapi_application: GetServerVariable() or ReadClient() fails, outside of
   the try block.                                                          *)
ReceiveFails ==
  /\ web.phase = "ask" /\ web.registered.request /\ web.server = "isapi"
  /\ web' = [web EXCEPT !.phase = "terminated"]

(* The handler makes its response call by call.                            *)
Respond(m, meant) ==
  /\ web.phase = "handle" /\ web.calls < MaxWebCalls
  /\ web' = [web EXCEPT !.made = m, !.meant = meant, !.calls = @ + 1]

SetContent == \E b \in WebBodies :
  Respond(set_content(web.made, b),
       [web.meant EXCEPT !.body = b \o @, !.set = TRUE, !.again = web.made.content # <<>>])
AddContent == \E b \in WebBodies, spare \in BOOLEAN :
  Respond(add_stream(web.made, b, spare), [web.meant EXCEPT !.body = @ \o b, !.set = @ \/ b # <<>>])
AddCookie == \E c \in WebCookies :
  Respond([web.made EXCEPT !.cookies = Append(@, c)], [web.meant EXCEPT !.cookies = Append(@, c)])
SetCookie == \E c \in WebCookies :
  Respond([web.made EXCEPT !.cookies = <<c>>], [web.meant EXCEPT !.cookies = <<c>>])
SetHeader == \E k \in {"X-Tag", "X-TAG"} :
  Respond(set_header(web.made, k, <<k>>, Clean), [web.meant EXCEPT !.tag = k])
SetStatus == \E s \in WebStatuses :
  Respond([web.made EXCEPT !.status = s], [web.meant EXCEPT !.status = s])

HandlerCalls == SetContent \/ AddContent \/ AddCookie \/ SetCookie \/ SetHeader \/ SetStatus

(* The handler throws: the response that it was making is lost.  Only the
   catch of dbp::exception of apache_application asks exception_handler.   *)
HandlerThrows ==
  /\ web.phase = "handle"
  /\ \E what \in {"dbp", "std"} :
       LET asks == web.registered.exception /\ (web.server = "apache" => what = "dbp")
           text == IF asks THEN <<"handled">> ELSE <<"what">>
           code == IF asks THEN 503 ELSE internal_server_error
       IN web' = [web EXCEPT !.phase = "send", !.thrown = what,
                    !.resp = [set_content(web.resp, text) EXCEPT !.status = code],
                    !.meant = [Nothing EXCEPT !.body = text, !.set = TRUE, !.status = code]]

HandlerReturns ==
  /\ web.phase = "handle"
  /\ web' = [web EXCEPT !.phase = "send", !.resp = web.made]

Send ==
  /\ web.phase = "send"
  /\ \E m \in send_response(web.server, web.resp) :
       \E s \in Served(result(web.server, web.resp), m) :
         web' = [web EXCEPT !.phase = "sent", !.sent = s, !.rslt = result(web.server, web.resp)]

(* isapi_application: WriteClient() fails, after the headers have left.    *)
SendFails ==
  /\ web.phase = "send" /\ web.server = "isapi" /\ get_content_size(web.resp) > 0
  /\ web' = [web EXCEPT !.phase = "terminated"]

WebNext ==
  \/ SendFails \/ Receive \/ Decline \/ ReceiveFails
  \/ HandlerCalls \/ HandlerThrows \/ HandlerReturns \/ Send

-----------------------------------------------------------------------------
(* The pairs of a cookie text or of a form, read by their own grammar.     *)
Pairs(t, mark) ==
  LET words == SelectSeq(t, LAMBDA x : x \notin {mark, "=", " "})
  IN [k \in 1..Len(words) \div 2 |-> <<<<words[2 * k - 1]>>, <<words[2 * k]>>>>]

(* A request that is written and read again, but for the type and the length
   of its content, which its header does not have; and its method, put into an
   answer as the one that is allowed.                                      *)
NamesAndValues(cookies) == [k \in DOMAIN cookies |-> <<cookies[k].name, cookies[k].value>>]
WrittenAndRead(m) ==
  LET lines == request_lines(m)
      back == FoldLeft(LAMBDA r, h : set_header(r, h[1], h[2], Clean), NewMessage, lines.headers)
  IN /\ get_allow(m) = unknown /\ get_allow(set_allow(m, m.method)) = m.method
     /\ back.headers = m.headers /\ NamesAndValues(back.cookies) = NamesAndValues(m.cookies)
     /\ lines.body = Content(m)

Plain(c) == c.same_site = <<>> /\ ~c.partitioned

(* The handler gets what arrived of the body, and when all of it arrived the
   request that the client sent: every header, every cookie, the content and
   its fields; written to a stream and read again it is the same request; the
   byte that add_content() writes behind its buffer never falls
   into the content, and may spoil the rest only where it hit something.    *)
RequestWhole ==
  web.phase = "handle" =>
    /\ IsPrefix(web.got, Content(web.req))
    /\ WrittenAndRead(web.req)
    /\ web.req.stray => web.server = "cgi" /\ web.asked.body # <<>>
    /\ web.got = web.asked.body => Content(web.req) = web.asked.body
    /\ web.got = web.asked.body /\ ~web.req.stray =>
       /\ web.asked.body # <<>> => web.req.length = Len(web.asked.body)
       /\ method_name(web.req.method) = web.asked.method
       /\ NamesAndValues(web.req.cookies) = Pairs(web.asked.cookies, ";")
       /\ \A k \in DOMAIN web.asked.headers :
            /\ Lower(web.asked.headers[k][1]) \in DOMAIN web.req.headers
            /\ (\A j \in k + 1..Len(web.asked.headers) :
                  Lower(web.asked.headers[j][1]) # Lower(web.asked.headers[k][1]))
                 => web.req.headers[Lower(web.asked.headers[k][1])] = web.asked.headers[k][2]
       /\ web.asked.ctype[1] = "application/x-www-form-urlencoded" =>
            parse_content(web.req) = [k \in DOMAIN Pairs(web.asked.body, "&") |->
               <<Decoded(Pairs(web.asked.body, "&")[k][1]), Decoded(Pairs(web.asked.body, "&")[k][2])>>]

(* The cookies that a server passes on: with apache the last one only.     *)
Passed(cookies) == IF web.server = "apache" /\ cookies # <<>> THEN <<Last(cookies)>> ELSE cookies

(* The client gets what the handler meant to answer, or the answer to its
   exception.  The body is the pieces in the order they were added (those set
   over others before them, with zeros between), announced by its length where
   no content was set twice; the headers, the status and the cookies are the
   last ones set, whatever the case of their names, and a cookie that is read
   back where local time is Greenwich time is the cookie written.  A status
   other than 200 that apache_application returns to httpd brings the document
   of httpd behind the body and may cost the headers; IIS may see a wrong
   status; all but the body may be spoilt by a byte behind a buffer.       *)
ResponseWhole ==
  web.phase = "sent" =>
    LET added == web.server = "apache" /\ web.meant.status # ok
        body == IF added THEN Front(web.sent.body) ELSE web.sent.body
        kept == ~web.resp.stray /\ (added => web.sent.headers # <<>> \/ web.sent.cookies # <<>>)
    IN /\ SelectSeq(body, LAMBDA b : b # NUL) = web.meant.body
       /\ ErrorDocument \in Range(web.sent.body) <=> added
       /\ ~web.meant.again => body = web.meant.body
       /\ ~web.meant.again /\ web.meant.set /\ ~web.resp.stray => web.sent.length = Len(web.sent.body)
       /\ web.server # "isapi" => web.sent.status = web.meant.status
       /\ kept => /\ web.meant.tag # "" <=> web.sent.headers # <<>>
                  /\ web.meant.tag # "" => web.sent.headers["x-tag"] = <<web.meant.tag>>
                  /\ Len(web.sent.cookies) = Len(Passed(web.meant.cookies))
                  /\ \A k \in DOMAIN web.sent.cookies :
                       Plain(Passed(web.meant.cookies)[k]) =>
                         http_cookie(web.sent.cookies[k], Clean) = Passed(web.meant.cookies)[k]


(* "you can customize the default exceptions handling by registering your
   handler" (web_application.h:70): a registered handler is asked.         *)
HandlerAsked ==
  web.phase = "sent" /\ web.thrown # "no" /\ web.registered.exception => web.sent.status = 503
=============================================================================
