------------------------------- MODULE Config -------------------------------
(***************************************************************************)
(* How the aggregator is configured (template.server.C): read_cfg() reads  *)
(* a file and the environment, parse_args() the command line, and          *)
(* parse_endpoint_list() the endpoints of a node or the ports to listen    *)
(* at.  A configuration is the vector `cfg', in which names and values     *)
(* alternate.                                                              *)
(***************************************************************************)
EXTENDS Naturals, Sequences, FiniteSets, SequencesExt

Least(S) == CHOOSE i \in S : \A j \in S : i <= j
Last1(S) == CHOOSE i \in S : \A j \in S : j <= i
OrElse(S, i) == IF S = {} THEN i ELSE Least(S)

-----------------------------------------------------------------------------
(* The configuration file.  A line is a record of its words, the first of
   which is the name when the line begins an option, and of whether it goes on
   after a backslash.  Blank lines and comments have no words and never go on. *)

(* The line at which the option that begins at line i ends. *)
OptionEnd(lines, i) ==
  OrElse({j \in i .. Len(lines) :
            ~lines[j].goesOn /\ \E k \in i .. j : lines[k].words # <<>>}, Len(lines))

Joined(lines, i, j) ==
  FoldLeft(LAMBDA ws, l : ws \o l.words, <<>>, SubSeq(lines, i, j))

(* The options read from line i on, as pairs of a name and the words of its
   value; reading ends where an option has no words. *)
Options(lines) ==
  LET From[i \in 1 .. Len(lines) + 1] ==
        IF i > Len(lines) THEN <<>>
        ELSE LET j == OptionEnd(lines, i)
                 words == Joined(lines, i, j)
             IN  IF words = <<>> THEN <<>> ELSE << <<Head(words), Tail(words)>> >> \o From[j + 1]
  IN  From[1]

Flat(pairs) == FoldLeft(LAMBDA c, p : c \o p, <<>>, pairs)

(* read_cfg(): the valid options of the file, the valid ones of the environment,
   and the number of invalid ones in the file. *)
ReadCfg(lines, environ, Valid) ==
  LET valid(pairs) == SelectSeq(pairs, LAMBDA p : p[1] \in Valid)
  IN  [cfg    |-> Flat(valid(Options(lines)) \o valid(environ)),
       errors |-> Len(Options(lines)) - Len(valid(Options(lines)))]

-----------------------------------------------------------------------------
(* The command line. *)

Flags == {"--help", "--version", "--cfg"}
FlagCode(t) == CASE t = "--help" -> 2 [] t = "--version" -> 5 [] t = "--cfg" -> 3

(* One argument: `pending' is the option that waits for its value.  When the
   first argument, argv[1], ends as an option that shows a schema does (Schemas),
   every option that begins with --node or --entry (MethodOptions) is taken for
   one; otherwise these are options like others. *)
Argument(st, t, argv, NameOf, Schemas, MethodOptions, Valid) ==
  IF st.error THEN st
  ELSE IF st.pending # "none"
    THEN [st EXCEPT !.cfg = @ \o <<st.pending, <<t>> >>, !.pending = "none"]
  ELSE IF t \in Flags THEN [st EXCEPT !.rc = FlagCode(t)]
  ELSE IF t \in MethodOptions /\ argv[1] \in Schemas THEN [st EXCEPT !.rc = 4]
  ELSE IF t \in DOMAIN NameOf
    THEN IF NameOf[t] \in Valid THEN [st EXCEPT !.pending = NameOf[t]]
                                ELSE [st EXCEPT !.error = TRUE]
  ELSE IF st.uac < 3
    THEN [st EXCEPT !.uac = @ + 1,
                    !.cfg = @ \o <<(<<"grpc_listening_ports", "rest_listening_ports",
                                      "webapp_directory">>)[st.uac + 1], <<t>> >>]
  ELSE [st EXCEPT !.error = TRUE]

(* parse_args(): 0 to run, 1 for an error, 2 to 5 to show something. *)
ParseArgs(argv, cfg, NameOf, Schemas, MethodOptions, Valid) ==
  LET st == FoldLeft(LAMBDA s, t : Argument(s, t, argv, NameOf, Schemas, MethodOptions, Valid),
                     [cfg |-> cfg, pending |-> "none", uac |-> 0, rc |-> 0, error |-> FALSE],
                     argv)
  IN  [cfg |-> st.cfg,
       rc  |-> IF argv = <<>> THEN 2
               ELSE IF st.error \/ st.pending # "none" THEN 1
               ELSE IF st.rc = 0 /\ st.uac < 1 THEN 1
               ELSE st.rc]

(* A bug the checks must notice: the first value of a name counts. *)
GetCfgFirst(cfg, name) ==
  LET at == {p \in 1 .. Len(cfg) : p % 2 = 0 /\ cfg[p - 1] = name}
  IN  IF at = {} THEN <<>> ELSE cfg[Least(at)]

(* get_cfg(): from the back, value after value. *)
GetCfg(cfg, name) ==
  LET at == {p \in 1 .. Len(cfg) : p % 2 = 0 /\ cfg[p - 1] = name}
  IN  IF at = {} THEN <<>> ELSE cfg[Last1(at)]

(* main(): what comes of a file, an environment and a command line: the server
   runs, something is shown, or the process ends with an error. *)
Configured(lines, environ, argv, NameOf, Schemas, MethodOptions, Valid) ==
  LET read == ReadCfg(lines, environ, Valid)
      args == ParseArgs(argv, read.cfg, NameOf, Schemas, MethodOptions, Valid)
  IN  IF read.errors # 0 THEN [cfg |-> read.cfg, outcome |-> "failed"]
      ELSE [cfg |-> args.cfg, outcome |-> IF args.rc = 0 THEN "run"
                                          ELSE IF args.rc = 1 THEN "failed" ELSE "shown"]

-----------------------------------------------------------------------------
(* Endpoint lists.  A string is a sequence of characters; "," stands for the
   separators, "a" for every character without a meaning. *)

Nowhere == 0
FirstFrom(s, chars, i) == OrElse({j \in i .. Len(s) : s[j] \in chars}, Nowhere)
FirstNot(s, chars, i)  == OrElse({j \in i .. Len(s) : s[j] \notin chars}, Nowhere)
LastNot(s, chars) ==
  LET at == {j \in DOMAIN s : s[j] \notin chars} IN IF at = {} THEN Nowhere ELSE Last1(at)
Colons(ep) == {j \in DOMAIN ep : ep[j] = ":"}

(* name_from_endpoint() *)
NameFromEndpoint(ep) ==
  IF Cardinality(Colons(ep)) = 1 THEN SubSeq(ep, 1, Last1(Colons(ep)) - 1) ELSE ep

(* The key under which the constructor of a connector looks up the addresses
   of an endpoint. *)
ConnectorKey(ep) == IF Colons(ep) = {} THEN "none" ELSE SubSeq(ep, 1, Last1(Colons(ep)) - 1)

Nothing == [ok |-> TRUE, dendpoints |-> {}, fendpoints |-> {}]
WithLookedUp(r, ep) == [r EXCEPT !.dendpoints = @ \union {ep}]
WithFixed(r, ep)    == [r EXCEPT !.fendpoints = @ \union {ep}]

(* A bug the checks must notice: a command ends at the first separator. *)
ElementEndAtSeparator(s, b) == OrElse({j \in b .. Len(s) : s[j] = ","}, Len(s) + 1)

(* Where the element that begins at b ends: a command in parentheses may
   contain separators. *)
ElementEnd(s, b) ==
  LET from == IF s[b] = "(" THEN FirstFrom(s, {")"}, b + 1) ELSE b
  IN  IF from = Nowhere THEN Nowhere
      ELSE OrElse({j \in from .. Len(s) : s[j] = ","}, Len(s) + 1)

(* parse_endpoint_list(), with `dnames' the names of `dendpoints'.  The loop
   ends when an element would begin at the last character of the list. *)
ParseEndpointList(s) ==
  LET end == LastNot(s, {","})
      begin == FirstNot(s, {","}, 1)
      From[b \in 0 .. Len(s)] ==
        IF b \in {Nowhere, end} THEN Nothing
        ELSE LET e == ElementEnd(s, b)
             IN  IF e = Nowhere THEN [Nothing EXCEPT !.ok = FALSE]
                 ELSE LET ep == SubSeq(s, b, e - 1)
                          rest == From[FirstNot(s, {","}, e)]
                      IN  IF ep[1] = "(" THEN WithLookedUp(rest, ep)
                          ELSE IF ep[1] = "@" THEN WithLookedUp(rest, Tail(ep))
                          ELSE WithFixed(rest, ep)
  IN  IF begin = Nowhere \/ end = begin THEN [Nothing EXCEPT !.ok = FALSE] ELSE From[begin]
=============================================================================
