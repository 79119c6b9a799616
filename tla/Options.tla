------------------------------- MODULE Options --------------------------------
(***************************************************************************)
(* What the program reads before it starts: options of the command line    *)
(* or of a file, the directories and networks they name, and when the      *)
(* first run of a periodic script is due.  Pure operators.                 *)
(*                                                                         *)
(* An option is a record: opt, its letter (211 and 212 have none); form,   *)
(* "short", "long", or "bare" as save() writes it; and its value.          *)
(***************************************************************************)
EXTENDS Integers, Sequences, FiniteSets, SequencesExt, TLC

CONSTANTS
  MaxInterfaces,   \* MAX_NUM_INTERFACES
  MaxNetworks,     \* CONST_MAX_NUM_NETWORKS
  Dirs             \* the directories that exist, as <<where, name>>

Flags == {"C", "e", "F", "H", "l", "P", "q", "s", "v", "211"}
Texts == {"1", "2", "3", "B", "c", "d", "g", "G", "I", "k", "m", "p", "U", "w", "W"}
Places == {"D", "E", "S"}
NoText == "none"
MinTable == 1024

\* The members of a set of numbers from the smallest on, and those of a sequence at such places.
InOrder(P) == [i \in 1..Cardinality(P) |-> CHOOSE p \in P : Cardinality({ q \in P : q < p }) = i - 1]
TakePlaces(s, P) == [i \in 1..Cardinality(P) |-> s[InOrder(P)[i]]]

\* Prefs::Prefs(): the preferences by their option.
DefaultPrefs ==
  [o \in Flags \cup Places \cup Texts \cup {"A", "i", "n", "r", "x", "X", "212"} |->
     CASE o \in Flags \cup {"212"} -> FALSE
       [] o \in Places -> "none"
       [] o \in {"1", "2", "3"} -> [kind |-> "relative", name |-> o]
       [] o \in Texts \ {"1", "2", "3"} -> NoText
       [] o = "A" -> 0
       [] o = "i" -> <<>>
       [] o = "r" -> [host |-> "127.0.0.1", port |-> 6379]
       [] o \in {"x", "X"} -> 131072
       [] o = "n" -> [mode |-> 0, all |-> FALSE, resolve |-> TRUE, decode |-> TRUE]]

\* The mode of the DNS: what an earlier mode switched stays switched.
DnsMode(n, mode) ==
  [mode |-> mode, all |-> n.all \/ mode = 1, resolve |-> n.resolve /\ mode \notin {2, 3},
   decode |-> n.decode /\ mode # 3]

\* setOption(), from -s on; an option or a value it does not know leaves the preferences alone.
SetLaterOption(p, o, v) ==
  CASE o \in {"F", "H", "l", "s", "v", "211"} -> [p EXCEPT ![o] = TRUE]
    [] o \in {"1", "2", "3", "G", "I", "U"} -> [p EXCEPT ![o] = v]
    [] o \in {"x", "X"} -> [p EXCEPT ![o] = IF v < MinTable THEN MinTable ELSE v]
    [] o = "212" -> [p EXCEPT ![o] = @ \/ v = "ixia"]
    [] OTHER -> p
\* setOption(): the options before -s.
SetOption(p, o, v) ==
  CASE o \in {"C", "e", "P", "q"} -> [p EXCEPT ![o] = TRUE]
    [] o \in {"B", "c", "d", "g", "k", "m", "p", "w", "W"} -> [p EXCEPT ![o] = v]
    [] o \in Places -> IF v \in {"all", "local", "remote", "none"} THEN [p EXCEPT ![o] = v] ELSE p
    [] o = "A" -> [p EXCEPT ![o] = IF v \in 0..2 THEN v ELSE 0]
    [] o = "i" -> IF Len(p[o]) < MaxInterfaces THEN [p EXCEPT ![o] = Append(@, v)] ELSE p
    [] o = "n" -> [p EXCEPT ![o] = DnsMode(@, v)]
    [] o = "r" -> [p EXCEPT ![o] = [host |-> v.host, port |-> IF v.port = 0 THEN @.port ELSE v.port]]
    [] OTHER -> SetLaterOption(p, o, v)
\* Help, the version and a wrong mode of the DNS are the end.
Ends(o) == o.opt \in {"h", "V"} \/ (o.opt = "n" /\ o.value \notin 0..3)

Load(options) == FoldLeft(LAMBDA p, o : SetOption(p, o.opt, o.value), DefaultPrefs, options)

\* loadFromCLI() stops at the first option that getopt does not know, and the short P is
\* one.  The long name of A takes no argument, and there is none to read.
Considered(options) ==
  LET unknown == SelectInSeq(options, LAMBDA o : o.opt \notin DOMAIN DefaultPrefs \cup {"h", "L", "V"}
                                                 \/ (o.opt = "P" /\ o.form = "short"))
  IN  IF unknown = 0 THEN options ELSE SubSeq(options, 1, unknown - 1)
CliEnds(o) == Ends(o) \/ (o.opt = "A" /\ o.form = "long")
\* loadFromFile() takes two characters off a name, one off a letter, and ignores what
\* it does not know then.
Lines(options) == TakePlaces(options, { i \in DOMAIN options : options[i].form # "bare" })
\* Two keys are kept as pointers into the line that was read last.
FilePrefs(options) ==
  LET p == Load(Lines(options))
  IN  [o \in DOMAIN p |-> IF o \in {"c", "k"} /\ p[o] # NoText THEN "dangling" ELSE p[o]]
-----------------------------------------------------------------------------
(* Paths and networks.                                                     *)
Missing == <<"", "">>
\* getValidPath(): as it is, or below the directory of the start, of the installation, or
\* the other one.  For an absolute path that is missing the rest is looked for under a
\* name that was never set: by chance it is one of the directories itself.
ValidPaths(path) ==
  LET under == <<"startup", "install", "other">>
      i == SelectInSeq(under, LAMBDA d : <<d, path.name>> \in Dirs)
  IN  IF path.kind = "absolute"
      THEN IF <<"root", path.name>> \in Dirs THEN {<<"root", path.name>>} ELSE {Missing, <<"startup", "">>}
      ELSE {IF i = 0 THEN Missing ELSE <<under[i], path.name>>}

\* checkOptions(): the three directories, in every way they may be found.
CheckOptions(p) ==
  { [o \in DOMAIN p |-> CASE o = "1" -> d1 [] o = "2" -> d2 [] o = "3" -> d3 [] OTHER -> p[o]] :
      d1 \in ValidPaths(p["1"]), d2 \in ValidPaths(p["2"]), d3 \in ValidPaths(p["3"]) }
Located(p) == Missing \notin {p["1"], p["2"], p["3"]}

\* addLocalNetwork(): a network that is there gets the next number, and keeps its old place;
\* one with a mask for its bits is taken for whatever an unset prefix holds.
NoNetworks == [list |-> <<>>, number |-> <<>>]
AddLocalNetwork(known, net) ==
  LET prefix == IF net.bits = "mask" THEN "garbage" ELSE net.net
  IN  IF Len(known.list) >= MaxNetworks THEN known
      ELSE [list |-> Append(known.list, net.net), number |-> prefix :> Len(known.list) @@ known.number]
SetLocalNetworks(nets) == FoldLeft(AddLocalNetwork, NoNetworks, nets)
\* ptree_add_rule() writes into a constant when the bits are missing.
NetworksEnd(nets) == \E i \in DOMAIN nets : nets[i].bits = "missing" /\ i <= MaxNetworks

\* loadLocalInterfaceAddress(): addresses of interfaces that are up.
LoadLocalInterfaceAddress(known, addresses) ==
  FoldLeft(LAMBDA k, a : IF a.up THEN AddLocalNetwork(k, a) ELSE k, known, addresses)

\* When a loop is due first, for an offset of local time.
FirstRun(now, period, offset) == now - (now % period) - offset + period
===============================================================================
