---------------------------- MODULE MCResources ----------------------------
(* What is lent, shared or handed out, as one instance for TLC: the        *)
(* requests and buffers of the block, network and input drivers and of the *)
(* RTL8139, page frames, address spaces, the files and handles of the name *)
(* service, and the screen of the terminal.  `part' says which of them     *)
(* runs; the others stay as they start.                                    *)
EXTENDS Blk, Net, Input, Frames, AddressSpace, Naming, Rtl8139, Terminal, TLC

CONSTANTS Components, t1, t2, w1, w2

VARIABLE part

One(S) == CHOOSE x \in S : TRUE

-----------------------------------------------------------------------------
MCBlkCfgs == [indirect : BOOLEAN, flush : BOOLEAN]

MCNetCfgs ==
    [client : {"net"}, indirect : BOOLEAN, legacy : {TRUE}, bufLen : {1527, 1528}]
    \cup [client : {"raw"}, indirect : {FALSE}, legacy : {FALSE}, bufLen : {1525, 1526}]

\* Frames: memories of thirteen page frames.  Maps whose areas touch, lie apart
\* and come in any order; the kernel image covers the start, the middle or the
\* end of an area, or a whole one; the ramdisk lies where no area offers memory.
ApartMaps ==
    {[areas |-> <<Range2(0, 1), Range2(4, 6), Range2(1, 4), Range2(7, 13)>>,
      kernel |-> Range2(2, 3), initrd |-> Range2(6, 7)],
     [areas |-> <<Range2(5, 13), Range2(0, 4)>>,
      kernel |-> Range2(1, 4), initrd |-> Range2(4, 5)],
     [areas |-> <<Range2(1, 3), Range2(4, 12)>>,
      kernel |-> Range2(1, 2), initrd |-> Range2(12, 13)],
     [areas |-> <<Range2(1, 3), Range2(4, 12)>>,
      kernel |-> Range2(1, 3), initrd |-> Range2(12, 13)]}

\* A map that offers the frames of the ramdisk, as it does those of the kernel.
OfferedMaps ==
    {[areas |-> <<Range2(0, 9)>>, kernel |-> Range2(1, 3), initrd |-> Range2(5, 7)]}

\* Address spaces: a segment of one page, and one with a bss of its own page.
MCSegments == {[filesz |-> 1, memsz |-> 1], [filesz |-> 2, memsz |-> 3]}

\* Naming: one file that is created, written and read; directories below each
\* other and paths that are not absolute; files and directories with one handle.
MCNmCfgs ==
    {[paths |-> {<<"", "a">>}, flags |-> {3, 7}, handles |-> 2, writes |-> 2, fds |-> 1],
     [paths |-> {<<"", "">>, <<"", "a">>, <<"", "a", "b">>, <<"a", "b">>}, flags |-> {5},
      handles |-> 2, writes |-> 0, fds |-> 1],
     [paths |-> {<<"", "a">>, <<"", "a", "b">>}, flags |-> {2, 3, 5}, handles |-> 1,
      writes |-> 1, fds |-> 1]}

\* Three handles on one file, given back in any order.
HandleCfgs ==
    {[paths |-> {<<"", "a">>}, flags |-> {3}, handles |-> 3, writes |-> 0, fds |-> 3]}

MCTexts == {<<1>>, <<2, 3>>}

\* RTL8139: packets only come, only go, or both.
MCRtlCfgs == {[rx |-> 5, tx |-> 0], [rx |-> 0, tx |-> 6], [rx |-> 2, tx |-> 2]}

\* Terminal: plain text with line breaks and backspaces; text with cursor
\* sequences; the same with places outside the screen; text with erasures and
\* colours; two writers of longer strings.
Text == {<<<<"print", "a">>>>, <<<<"print", "wide">>>>, <<<<"exec", "nl">>>>}
Csi(action, ps) == <<<<"csi">>, <<"end", action, ps>>>>
Moves == {Csi(a, <<0>>) : a \in {"A", "B", "C", "D"}}
         \cup {Csi(a, <<2>>) : a \in {"B", "C", "E", "F", "G"}}
         \cup {Csi("H", <<>>), Csi("s", <<>>), Csi("u", <<>>)}
Lines(strings, count, writers, plain) ==
    [strings |-> strings, count |-> count, writers |-> writers, plain |-> plain]
MCTermCfgs ==
    {Lines(Text \cup {<<<<"print", "none">>>>, <<<<"exec", "bs">>>>}, 4, {w1}, TRUE),
     Lines(Text \cup Moves \cup {Csi("H", <<1, 2>>), <<<<"exec", "tab">>>>, <<<<"exec", "bell">>>>},
           3, {w1}, FALSE),
     Lines(Moves \cup {Csi("H", <<4, 3>>), Csi("f", <<5, 4>>), <<<<"exec", "nl">>>>, <<<<"exec", "tab">>>>},
           2, {w1}, FALSE),
     Lines(Text \cup {Csi("H", <<1, 2>>), Csi("n", <<6>>)}
             \cup {Csi("J", <<n>>) : n \in 0..2} \cup {Csi("K", <<n>>) : n \in 0..1}
             \cup {Csi("m", ps) : ps \in {<<0>>, <<38, 5, 1, 7>>, <<48, 2, 1, 1, 1>>, <<91, 1>>}},
           3, {w1}, FALSE),
     Lines({<<<<"print", "a">>>> \o Csi("m", <<41>>), Csi("K", <<>>) \o Csi("H", <<0, 1>>)},
           2, {w1, w2}, FALSE)}

-----------------------------------------------------------------------------
MCInit ==
    /\ part \in Components
    /\ BlkInit /\ (part # "blk" => blkCfg = One(BlkCfgs))
    /\ NetInit /\ (part # "net" => netCfg = One(NetCfgs))
    /\ EvInit
    /\ FrInit /\ (part # "frames" => map = One(Maps))
    /\ AsInit
    /\ NmInit /\ (part # "naming" => nmCfg = One(NmCfgs))
    /\ RtlInit /\ (part # "rtl8139" => rtlCfg = One(RtlCfgs))
    /\ TermInit /\ (part # "terminal" => termCfg = One(TermCfgs))

\* Every component but p stays as it is.
Only(p) ==
    /\ part = p
    /\ UNCHANGED part
    /\ p # "blk" => UNCHANGED <<blkVars, blkCfg>>
    /\ p # "net" => UNCHANGED <<netVars, netCfg>>
    /\ p # "input" => UNCHANGED evVars
    /\ p # "frames" => UNCHANGED frVars
    /\ p # "space" => UNCHANGED asVars
    /\ p # "naming" => UNCHANGED nmVars
    /\ p # "rtl8139" => UNCHANGED rtlVars
    /\ p # "terminal" => UNCHANGED termVars

MCNext ==
    \/ Only("blk") /\ BlkNext
    \/ Only("net") /\ NetNext
    \/ Only("input") /\ EvNext
    \/ Only("frames") /\ FrNext
    \/ Only("space") /\ AsNext
    \/ Only("naming") /\ NmNext
    \/ Only("rtl8139") /\ RtlNext
    \/ Only("terminal") /\ TermNext

MCVars == <<part, blkVars, blkCfg, netVars, netCfg, evVars, frVars, asVars, nmVars,
            rtlVars, termVars>>

MCSpec == MCInit /\ [][MCNext]_MCVars

============================================================================
