---------------------------- MODULE MCEncodings ----------------------------
EXTENDS Encodings
\* Both sides of every boundary of the widths, and of zero.
MCStats ==
    [secs : {-(Half \div Nano) - 1, -1, 0, Half \div Nano - 1, Half \div Nano + 1},
     nsec : {0, Nano - 1}, size : {0, Word, Half - 1, Half, 2 * Half - 1},
     inode : {2 * Half - 1}, dev : {Half}, mode : {Word - 1}]
    \cup
    [secs : {0, (2 * Half) \div Nano}, nsec : {0, (2 * Half) % Nano}, size : {0},
     inode : {0}, dev : {0}, mode : {0}]
MCMetaValues == {Null, 0, Word - 1, Half - 1, 2 * Half - 1}
MCPathHash(path) == 2 * Half - path
MCSizeUnits == [b |-> 1, kb |-> 10, kib |-> 16, gib |-> 32768]
MCTimeUnits == [s |-> 1, m |-> 6, h |-> 60, w |-> 6000]
MCTexts ==
    [halves : {-2, 0, 1, 2, 3, 6, 2047, 2049, 2050, 2051, 4097, 16383, 16386, 20500},
     unit : {"b", "kb", "kib", "gib", "s", "m", "h", "nope"}]
MCInts == {[int |-> n] : n \in {-1, 0, Byte, Word, Half - 1}}
MCFloats == {[float |-> n] : n \in {-2 * Half - 1, -65, 0, 65, 131, Half + 1}}
MCTomls ==
    {[extraction |-> [max_file_size |-> v]] : v \in MCTexts \cup MCInts} \cup
    {[auto_refresh |-> [threshold |-> v, enabled |-> [flag |-> 0]]] :
        v \in MCTexts \cup MCInts} \cup
    {[walk |-> [hidden |-> v]] : v \in MCInts \cup {[flag |-> 0]}} \cup
    {[archive |-> [max_archive_depth |-> v], search |-> [rrf_k |-> w]] :
        v, w \in MCInts} \cup
    {[search |-> [title_boost |-> v, fts_weight |-> [float |-> 1]]] : v \in MCInts \cup MCFloats} \cup
    {[unknown |-> [key |-> [int |-> -1]], chunking |-> [unknown |-> [int |-> -1]]]}
=============================================================================
