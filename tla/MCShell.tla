------------------------------- MODULE MCShell -------------------------------
(* Shell with batch files that change the directory, name another, name    *)
(* themselves, or name nothing.                                            *)
EXTENDS Shell, TLC

Line(command, args) == [command |-> command, args |-> args]

MCLines == {Blank, Line("dir", <<>>), Line("cd", <<"sub">>), Line("pause", <<>>),
            Line("quit", <<>>), Line("program", <<>>), Line("echo", <<"self">>),
            Line("myshell", <<>>), Line("myshell", <<"outer">>), Line("myshell", <<"inner", "self">>)}

MCFiles == "outer" :> <<Line("myshell", <<"inner">>), Line("cd", <<"sub">>), Line("myshell", <<"inner">>)>>
        @@ "inner" :> <<Blank, Line("program", <<>>), Line("dir", <<>>)>>
        @@ "self" :> <<Line("echo", <<>>), Line("myshell", <<>>), Line("myshell", <<"self">>)>>

(* Files that run out before the stack does, and others; in one of these   *)
(* lives the history cannot be written to.                                 *)
MCLimits == {[files |-> 2, writable |-> {TRUE}], [files |-> 4, writable |-> {TRUE}],
             [files |-> 4, writable |-> {FALSE}]}

MCDirs == {"home", "sub"}
=============================================================================
