---------------------------- MODULE MCYmodemSend ----------------------------
\* YmodemSend with files of which one has so many blocks that their numbers
\* begin again at 0, and one has none.
EXTENDS YmodemSend

MCSizes == <<5, 0, 1>>

=============================================================================
