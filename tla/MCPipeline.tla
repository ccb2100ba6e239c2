----------------------------- MODULE MCPipeline -----------------------------
(* Three commands: alone, and with redirections of each kind.              *)
EXTENDS Pipeline

R(op, fd, target) == [op |-> op, fd |-> fd, target |-> target]
ToFile == R("file", 1, 0)
FromFile == R("file", 0, 0)
ErrorsToo == R("dup", 2, 1)
OutputToInput == R("dup", 1, 0)
Here == R("here", 0, 0)
HereTo(fd) == R("here", fd, 0)

MCPlans ==
  {<< <<>>, <<>>, <<>> >>,
   << <<>>, <<ToFile, ErrorsToo>>, <<>> >>,
   << <<ErrorsToo, ToFile>>, <<>>, <<>> >>,
   << <<Here>>, <<>>, <<FromFile>> >>,
   << <<OutputToInput>>, <<OutputToInput>>, <<>> >>,
   << <<ToFile>>, <<Here, ToFile>>, <<ToFile>> >>,
   << <<HereTo(6)>>, <<ErrorsToo>>, <<HereTo(7)>> >>}

=============================================================================
