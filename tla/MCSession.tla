----------------------------- MODULE MCSession -----------------------------
(***************************************************************************)
(* The worlds of the model: each of the sets below varies one part of them *)
(* in full and keeps the others as they have to be for a backup to start.  *)
(***************************************************************************)
EXTENDS Session

LOCAL INSTANCE TLC
LOCAL INSTANCE SequencesExt

Local(root) == [kind |-> "local", root |-> root]

Share(share, server, account, root) ==
    [kind |-> "smb", root |-> root, share |-> share, server |-> server, account |-> account]

Server(url, methods, password, agent, root) ==
    [kind |-> "ssh", root |-> root, url |-> url, methods |-> methods,
     password |-> password, agent |-> agent]

Between(args, s, d) == [args |-> args, place |-> [S |-> s, D |-> d], questions |-> 0]

SD == <<"S", "D">>
Folder == Local("folder")

\* Options: up to three letters before the folders, and what is odd.
OptionWorlds ==
    {Between(a, Folder, Folder) : a \in
        {o \o SD : o \in BoundedSeq({"l", "d", "m", "e", "r"}, 3)}
        \cup {<<>>, <<"S">>, <<"S", "l", "D", "d">>, <<"S", "D", "S">>, <<"D", "S", "e">>,
              <<"a", "b", "u", "n", "S", "D">>, <<"x", "S", "b", "D", "a">>}}

LocalWorlds == {Between(SD, Local(s), Local(d)) : s \in Root, d \in Root}

\* URLs: every sequence of up to five parts, no two words in
\* a row.
MCPortOf == [w |-> 0] @@ ("22" :> 22) @@ ("-1" :> -1) @@ ("65535" :> 65535)
MCWord == DOMAIN MCPortOf
Parts == {":", "@", "/", "w", "22"}
Urls ==
    {u \in BoundedSeq(Parts, 5) : \A i \in 1..(Len(u) - 1) : {u[i], u[i + 1]} \notin SUBSET MCWord}
    \cup {<<"w", "@", "w", ":", p, "/", "w">> : p \in MCWord}
    \cup {<<"w", ":", "w", "@", "w", ":", p>> : p \in MCWord}
UrlWorlds ==
    {Between(SD, Server(u, {"publickey"}, <<"w">>, <<TRUE>>, "folder"), Folder) : u \in Urls}

\* Logins: what the server asks for, the password, the identities of the agent.
Logins ==
    [methods : SUBSET {"password", "publickey"}, url : {<<"w", "@", "w">>, <<"w", ":", "w", "@", "w">>},
     password : {<<"w">>, <<"22">>}, agent : BoundedSeq(BOOLEAN, 2), root : {"folder", "link", "locked"}]
LoginWorlds ==
    LET server(g) == Server(g.url, g.methods, g.password, g.agent, g.root)
    IN  {Between(SD, server(g), Folder) : g \in Logins}
        \cup {Between(SD, Folder, server(g)) : g \in Logins}

\* The sections of .smbcreds, and the login that the share asks for.
Sections == [username : {<<>>, <<"u">>, <<"v">>}, password : {<<>>, <<"u">>, <<"v">>}]
ShareWorlds ==
    {Between(a, Share(s, t, c, "folder"), Folder) :
        a \in {SD, <<"u", "S", "D">>}, s \in Sections, t \in Sections,
        c \in {Guest, [username |-> <<"u">>, password |-> <<"v">>]}}
    \cup {Between(SD, Folder, Share(Guest, Guest, Guest, r)) : r \in {"folder", "locked", "absent"}}

\* A run with questions.
QuestionWorlds == {[Between(SD, Folder, Folder) EXCEPT !.questions = MaxQuestions]}

MCWorld ==
    OptionWorlds \cup LocalWorlds \cup UrlWorlds \cup LoginWorlds \cup ShareWorlds \cup QuestionWorlds
=============================================================================
