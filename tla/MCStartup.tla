------------------------------ MODULE MCStartup ------------------------------
(* Two devices and one that is never used; files of one name in two        *)
(* directories; a collector; starts that name them, or nothing.            *)
EXTENDS Startup

eth0 == Name("eth0")
eth1 == Name("eth1")
MCDevices == << [name |-> eth0, valid |-> TRUE, up |-> TRUE], [name |-> Name("ppp0"), valid |-> FALSE, up |-> TRUE],
                [name |-> eth1, valid |-> TRUE, up |-> TRUE] >>
MCSource ==
  eth0 :> [kind |-> "live", base |-> eth0] @@ Name("a/x") :> [kind |-> "file", base |-> Name("x")]
  @@ Name("b/x") :> [kind |-> "list", base |-> Name("x")] @@ Name("no") :> [kind |-> "unreadable", base |-> Name("no")]
  @@ Name("tcp") :> [kind |-> "collector", base |-> Name("tcp")]
Option(opt, value) == [opt |-> opt, form |-> "short", value |-> value]
Start(from, options) == [from |-> from, options |-> options, nets |-> << [net |-> "net", bits |-> "ok"] >>]
MCInput ==
  { Start("cli", <<>>), Start("cli", <<Option("i", eth1), Option("F", "")>>),
    Start("cli", <<Option("i", Number(1)), Option("i", eth0)>>),
    Start("cli", <<Option("i", Name("a/x")), Option("i", Name("b/x")), Option("s", ""), Option("P", "")>>),
    Start("file", <<Option("c", "key"), Option("i", Name("tcp")), Option("i", Name("no"))>>),
    Start("missing", <<>>), Start("cli", <<Option("h", "")>>) }
MCAddresses == << [net |-> "net", bits |-> "ok", up |-> TRUE], [net |-> "down", bits |-> "ok", up |-> FALSE] >>
MCDirs == { <<"root", "startup">>, <<"startup", "1">>, <<"install", "2">>, <<"other", "3">> }
MCLoops == [minute |-> [period |-> 2, offset |-> 0], day |-> [period |-> 4, offset |-> -1]]
===============================================================================
