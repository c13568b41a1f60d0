------------------------------- MODULE MCExport -------------------------------
\* Files of a controller whose trigger names commands, one of them twice.
EXTENDS SourceParser

Line(kind, section, key, value) ==
  [kind |-> kind, section |-> section, arg |-> "1", key |-> key, value |-> value]
MCSourceLine ==
  {Line("section", "state", "", ""), Line("key", "", "type", "changestate"),
   Line("key", "", "value", "1"), Line("key", "", "trigger", <<"x", "y", "x">>)}
===============================================================================
