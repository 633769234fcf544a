------------------------------ MODULE MCDecoyShells ------------------------------
(***************************************************************************)
(* The pretended ESXi and Windows shells for TLC: lines that are run and   *)
(* flagged, and lines that are run alike and spelled otherwise.            *)
(***************************************************************************)
EXTENDS DecoyShells

LineOf(ws) == [words |-> ws, wide |-> FALSE]

MCEsxiLines ==
    {LineOf(ws) : ws \in
        {<<"esxcli", "vm", "process", "kill", "w1">>, <<"vim-cmd", "vmsvc/power.off", "1">>,
         <<"vim-cmd", "vmsvc/getallvms">>, <<"esxcli", "vm", "process", "list">>,
         <<"find", "/vmfs", "*.vmdk">>, <<"cd", "/vmfs/volumes">>, <<"ls">>, <<"exit">>,
         <<"./encrypt">>, <<"wget", "http:", "|", "sh">>, <<>>}}
    \union {[words |-> <<"esxcli", "vm", "process", "kill", "w1">>, wide |-> TRUE]}

MCWinLines ==
    {LineOf(ws) : ws \in
        {<<"vssadmin", "delete", "shadows", "/all">>, <<"vssadmin", "/quiet", "delete", "shadows">>,
         <<"bcdedit", "/set", "recoveryenabled", "no">>, <<"cipher", "/w">>,
         <<"wbadmin", "delete", "catalog">>, <<"wbadmin", "-quiet", "delete", "catalog">>, <<>>,
         <<"net", "user", "x", "pw", "/add">>,
         <<"net", "user", "x", "/add">>, <<"certutil", "-decode", "x">>,
         <<"net", "localgroup", "administrators", "x", "/add">>,
         <<"powershell", "-enc", "base64">>, <<"pwsh", "-enc", "base64">>,
         <<"certutil", "-urlcache", "http:">>, <<"cd", "c:">>, <<"cd", "..">>, <<"dir">>, <<"dir", "users">>,
         <<"type", "vcenter-creds.txt">>, <<"logoff">>}}
==================================================================================
