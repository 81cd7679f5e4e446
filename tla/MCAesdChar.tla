----------------------------- MODULE MCAesdChar -----------------------------
(* Small instances of the driver.  A command is a few bytes: all that the  *)
(* driver looks at is where the newlines are, so one other character "x"   *)
(* is enough, and lengths that differ tell the commands apart.             *)
EXTENDS AesdChar, TLC

NL == "nl"

MCByte == {"x", NL, "junk"}

(* A part of a line, the end of a line, and the end of one line with the   *)
(* beginning of the next.                                                  *)
Lines == {<<"x">>, <<NL>>, <<NL, "x">>}

(* A part of a line, the end of a line, and two lines at once.             *)
SeveralLines == {<<"x">>, <<NL>>, <<NL, NL>>}

MCSeekArgs == {<<"SEEK_SET", 1>>, <<"SEEK_END", 0>>, <<"SEEK_CUR", -1>>}

MCSeekTos == {<<0, 1>>, <<1, 0>>, <<2, 0>>}

(* Two lines in one write, as a user sends them.                           *)
TwoLines == {<<"x", NL, "x", NL>>}

(* One and two rounds of the loop, where the bytes are not looked at.      *)
LineEnds == {<<NL>>, <<NL, NL>>}

(* A single argument each, where the seeks are not what is looked at.      *)
EndOnly == {<<"SEEK_END", 0>>}
SecondOnly == {<<1, 0>>}

MCSymmetry == Permutations(Proc)
=============================================================================
