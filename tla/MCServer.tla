------------------------------ MODULE MCServer ------------------------------
(* A gateway with two threads and one direct client; a node with one fixed
   stub, or with none.  Start-ups vary in one part at a time. *)
EXTENDS Server

CONSTANTS r1, r2, c1, epA

MCStubSets == {{}, {[ep |-> epA, ip |-> NoIp, copy |-> 1]}}

UpTo(S, n) == UNION {[1 .. k -> S] : k \in 0 .. n}
Line(words, goesOn) == [words |-> words, goesOn |-> goesOn]

MCNameOf  == [t \in {"--trace", "--rest", "--bogus", "--entry-timeout", "--entry-proto"} |->
               CASE t = "--trace" -> "trace_calls" [] t = "--rest" -> "rest_listening_ports"
                 [] t = "--bogus" -> "bogus" [] t = "--entry-timeout" -> "entry_timeout"
                 [] t = "--entry-proto" -> "entry_proto"]
MCSchemas == {"--entry-proto"}
MCMethodOptions == {"--entry-proto", "--entry-timeout"}
MCValid   == {"trace_calls", "grpc_listening_ports", "rest_listening_ports", "entry_timeout"}

Lines == {Line(<<>>, FALSE), Line(<<"more">>, FALSE), Line(<<"bogus", "1">>, FALSE)}
           \union {Line(<<"trace_calls", v>>, b) : v \in {"1", "2"}, b \in BOOLEAN}
Environs == {<<>>, << <<"trace_calls", <<"environment">> >> >>}
Arguments == {"--trace", "--rest", "--bogus", "--help", "--cfg", "--entry-proto",
              "--entry-timeout", "word"}

Fixed   == <<"a", ":", "a">>
LookUp  == <<"@", "a", ":", "a">>
Command == <<"(", "a", ",", "a", ")", ":", "a">>
Elements == {Fixed, LookUp, Command, <<"a">>}
Joint(es, sep) ==
  IF es = <<>> THEN sep
  ELSE FoldLeft(LAMBDA s, e : s \o sep \o e, Head(es), Tail(es))

Start(lines, environ, argv, elements, endpoint) ==
  [lines |-> lines, environ |-> environ, argv |-> argv, elements |-> elements,
   endpoint |-> endpoint, cfg |-> <<>>, node |-> Nothing]
MCStartups ==
  {Start(ls, e, <<"word">>, <<Fixed>>, Fixed) : ls \in UpTo(Lines, 3), e \in Environs}
    \union {Start(ls, e, as, <<Fixed>>, Fixed) :
              ls \in {<<>>, <<Line(<<"trace_calls", "1">>, FALSE)>>}, e \in Environs,
              as \in UpTo(Arguments, 3) \union {[i \in 1 .. 4 |-> "word"]}}
    \union {Start(<<>>, <<>>, <<"word">>, es, before \o Joint(es, sep) \o after) :
              es \in UpTo(Elements, 3), sep \in {<<",">>, <<",", ",">>},
              before, after \in {<<>>, <<",">>}}
=============================================================================
