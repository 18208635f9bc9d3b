------------------------------ MODULE MCJclJob ------------------------------
(***************************************************************************)
(* JclJob for TLC: members of all record formats, numbered and not, in     *)
(* either DD of a search, and execs of every kind.                         *)
(***************************************************************************)
EXTENDS JclJob

x == "x"

Text(t) == [text |-> t]
F(lrecl, blocks) == [recfm |-> "F", lrecl |-> lrecl, blocks |-> blocks]
V(blocks) == [recfm |-> "V", blocks |-> blocks]
U(blocks) == [recfm |-> "U", blocks |-> blocks]
Rec(text) == [rdw |-> Prefix + Len(text), text |-> text]
VBlock(limit, texts) == [limit |-> limit, records |-> [i \in DOMAIN texts |-> Rec(texts[i])]]

\* Records of four columns, the last two the sequence number if they are digits.
Numbered1 == F(4, <<Text(<<x, Blank, Digit, Digit, Blank, x, x, x>>), Text(<<Blank, Blank, Digit, Digit>>)>>)
Sources ==
    {Numbered1,
     F(4, <<Text(<<x, x, Digit, x, x, Blank, Digit, Digit>>)>>),
     F(4, <<Text(<<x, x, x, x>>), BlockError>>), F(4, <<Text(<<x, x, x, x, x>>)>>),
     V(<<VBlock(100, <<<<Digit, Digit, x>>, <<x, x, Blank>>, <<Digit>>, <<x, x, x, x, x, x>>>>)>>),
     V(<<VBlock(100, <<<<Digit>>, <<>>, <<Digit, Digit, x>>>>), VBlock(100, <<<<x>>>>)>>),
     V(<<VBlock(15, <<<<x, x>>, <<x, x, x>>>>)>>),
     U(<<Text(<<x, Blank, Digit, Digit>>), Text(<<x>>)>>)}

MCLibraries ==
    {[d \in {"SYSEXEC", "SYSPROC"} |-> IF d = "SYSEXEC" THEN s ELSE NoDD] : s \in Sources}
    \cup {[d \in {"SYSEXEC", "SYSPROC"} |-> IF d = "SYSEXEC" THEN e ELSE Numbered1] :
              e \in {NoDD, NoMember, Unreadable, U(<<Text(<<x>>)>>)}}

Exec(name, scans, compiles, ends, arg) ==
    [name |-> name, scans |-> scans, compiles |-> compiles, ends |-> ends, traps |-> {}, arg |-> arg]
Traps(exec, codes) == [exec EXCEPT !.traps = codes]

MCExecs == {Traps(Exec("good", TRUE, "OK", 0, FALSE), {42}), Exec("bad", TRUE, "FALLBACK", 41, TRUE)}
MCParms ==
    {[member |-> TRUE, exec |-> e] : e \in
        {Exec("good", TRUE, "OK", 0, TRUE), Traps(Exec("fails", TRUE, "OK", 43, FALSE), {0}),
         Exec("walks", TRUE, "FALLBACK", 0, TRUE), Exec("walksbad", TRUE, "FALLBACK", 40, FALSE),
         Exec("deep", TRUE, "LOOP", 0, FALSE), Exec("wide", TRUE, "PATCH", 0, FALSE),
         Exec("torn", FALSE, "OK", 0, FALSE)}}
    \cup {[member |-> FALSE, exec |-> Exec("", TRUE, "OK", 0, FALSE)]}

Call(list, e, inst, exec, subcom, eval) ==
    [list |-> list, env |-> e, inst |-> inst, exec |-> exec, subcom |-> subcom, eval |-> eval]
MCCalls ==
    {Call(TRUE, "ok", "ok", "none", FALSE, TRUE), Call(TRUE, "ok", "ok", "bad", TRUE, TRUE),
     Call(TRUE, "ok", "ok", "ok", TRUE, FALSE), Call(TRUE, "notfound", "ok", "none", FALSE, TRUE),
     Call(FALSE, "ok", "ok", "none", FALSE, TRUE), Call(TRUE, "bad", "ok", "none", FALSE, TRUE),
     Call(TRUE, "ok", "none", "ok", FALSE, TRUE), Call(TRUE, "ok", "none", "bad", FALSE, TRUE),
     Call(TRUE, "ok", "bad", "ok", FALSE, TRUE)}

MCSearch == <<"SYSEXEC", "SYSPROC">>

ASSUME MembersReadable({x, Blank, Digit})
=============================================================================
