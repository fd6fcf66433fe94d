----------------------------- MODULE MCHttpServer -----------------------------
(***************************************************************************)
(* Requests of a few bytes.  The first client asks all kinds of things,    *)
(* the second one a few simple ones while the first is being served.       *)
(***************************************************************************)
EXTENDS HttpServer

CONSTANTS c1, c2

\* Steps and programs.
Says(fd, bytes) == [op |-> "write", fd |-> fd, bytes |-> bytes]
Reads(count)    == [op |-> "read", count |-> count]
Echoes(fd)      == [op |-> "echo", fd |-> fd]
Do(op)          == [op |-> op]

Good(code) == [assembles |-> TRUE, links |-> TRUE, loads |-> TRUE, code |-> code]
Nonsense   == [Good(<<>>) EXCEPT !.assembles = FALSE]
Unlinked   == [Good(<<>>) EXCEPT !.links = FALSE]

Hello   == Good(<<Says(1, <<72, 105>>), Do("halt")>>)
Prints(text) == Good(<<Says(1, text), Do("halt")>>)
Endless == Good(<<Says(1, <<72, 105>>), Do("loop")>>)
Fails   == Good(<<Says(2, <<72>>), Says(1, <<105>>), Do("trap")>>)
Echo    == Good(<<Reads(2), Echoes(1), Reads(3), Echoes(1), Do("halt")>>)

\* A body spells its program only when it is there to the last byte.
Body(size, program) == [n \in 0 .. size |-> IF n = size THEN program ELSE Nonsense]

Request(header, length, body, program) ==
  [line |-> TRUE, method |-> "POST", path |-> "/api/run", query |-> <<>>,
   header |-> header, length |-> length, body |-> body, level |-> "O0", typed |-> <<>>,
   program |-> [level \in {"O0", "O1"} |-> Body(body, program)]]

Run(program) == Request(1, 1, 1, program)
Get(path) == [Request(1, 0, 0, Nonsense) EXCEPT !.method = "GET", !.path = path]

Pair(key, value) == <<[key |-> key, value |-> value]>>
Typed(text, encoded) ==
  [Run(Echo) EXCEPT !.typed = text, !.query = Pair("opt", <<48>>) \o Pair("stdin", encoded)]

-----------------------------------------------------------------------------
\* Requests that end, at, before or after what they announce, around the limits.
Lengths ==
  {Request(2, 3, 3, Hello), Request(2, 4, 4, Hello), Request(2, 5, 5, Hello),
   Request(2, 6, 6, Hello), Request(2, 7, 7, Hello), Request(2, 9, 9, Hello),
   Request(12, 0, 0, Hello), Request(2, 3, 1, Hello), Request(2, 1, 3, Hello)}

Routes ==
  {Get("/"), Get("/index.html"), Get("/api/run"), Get("/secrets"),
   [Get("/") EXCEPT !.method = "POST"], [Get("/") EXCEPT !.line = FALSE]}

Jobs ==
  {Run(Nonsense), Run(Unlinked), Run(Hello), Run(Endless), Run(Fails),
   \* The optimizer's program takes a step less.
   [Run(Hello) EXCEPT !.query = Pair("opt", One), !.level = "O1",
      !.program["O0"] = Body(1, Good(<<Do("work"), Says(1, <<72, 105>>), Do("halt")>>))],
   \* "a b", "1%2", an escape cut short and one that is none.
   Typed(<<97, 32, 98>>, <<97, 43, 98>>), Typed(<<97, 32>>, <<97, 37, 50, 48>>),
   Typed(<<49, 37, 50>>, <<49, 37, 50, 53, 50>>), Typed(<<97, 37, 50>>, <<97, 37, 50>>),
   Typed(<<37, 71, 48>>, <<37, 71, 48>>), Typed(<<171>>, <<37, 97, 66>>)}

\* At most five bytes are kept, so that some characters are cut.
Texts ==
  {<<34, 92, 10, 13, 9>>, <<1, 31, 32, 127>>, <<65, 66, 67, 68, 69, 70>>,
   <<128, 65>>, <<193, 191>>, <<194, 128, 223, 191>>, <<194, 65>>, <<224, 159, 191>>,
   <<224, 160, 128>>, <<237, 159, 191>>, <<237, 160, 128>>, <<238, 128, 128>>,
   <<225, 128>>, <<225, 128, 65>>, <<240, 143, 191, 191>>, <<240, 144, 128, 128>>,
   <<241, 128, 128, 192>>, <<244, 143, 191, 191>>, <<244, 144, 128, 128>>,
   <<245, 128>>, <<65, 66, 67, 226, 130, 172>>, <<226, 130, 172, 194, 162, 65>>}

MCRequests ==
  [c \in Clients |->
     IF c = c1 THEN Lengths \cup Routes \cup Jobs \cup {Run(Prints(text)) : text \in Texts}
     ELSE {Request(2, 1, 1, Hello), Request(1, 1, 0, Hello), Get("/")}]

ASSUME QueriesMeanWhatTheySay

=============================================================================
