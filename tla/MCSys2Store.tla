---------------------------- MODULE MCSys2Store ----------------------------
(* The processes, sockets and texts with which Sys2Store is checked.       *)
EXTENDS Sys2Store

MCUidOf == [p \in 1..2 |-> IF p = 1 THEN 0 ELSE 7]
MCSockets == {<<2, 3>>}

Setmtu(arg)   == Text(<<"set", "mtu">>, 6, arg)
SetNiceU(arg) == Text(<<"set", "nice", "user">>, 11, arg)
ShowIf(arg)   == Text(<<"show", "interface">>, 13, arg)
ClearIf(arg)  == Text(<<"clear", "interface">>, 14, arg)

(* Both writers race with these: every handler, setmtu with a number out   *)
(* of its range, in it and with none, setsocketsize with and without a     *)
(* socket; races add the parameters that are refused.  The values set are  *)
(* the ones in force, as no property of the run looks at them.             *)
MCTexts ==
    { Setmtu(<<Word("eth0"), Num(60)>>),
      Setmtu(<<Word("eth0"), Num(MtuDefault)>>),
      Setmtu(Bare),
      SetNiceU(<<Num(7), Num(0)>>),
      Text(<<"set", "nice">>, 7, <<Num(0)>>),
      Text(<<"set", "thread", "priority">>, 17, <<Num(2), Num(0)>>),
      Text(<<"set", "socket", "size">>, 13, <<Num(2), Num(4), Num(1), Num(1)>>),
      Text(<<"set", "socket", "size">>, 13, <<Num(2), Num(3), Num(1), Num(1)>>),
      ShowIf(<<Word("eth0")>>),
      ClearIf(<<Word("eth0")>>),
      Text(<<"parse">>, 5, <<>>) }

(* One writer, and a command sent twice: with an argument and without.     *)
MCRepeated == { Setmtu(<<Word("eth0"), Num(9000)>>), Setmtu(<<>>), Setmtu(Bare) }
=============================================================================
