----------------------------- MODULE MCSer2Net -----------------------------
EXTENDS Ser2Net

MCByte == Stamps \cup {NoByte, Plus, Letter, Command, Entm}
=============================================================================
