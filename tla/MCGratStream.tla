----------------------------- MODULE MCGratStream -----------------------------
(* Up to six items in entries of one or two, with buffers that are dumped
   after four or more integers. *)
EXTENDS GratStream

SomeEntries ==
    {<<UnitItem(<<2>>)>>, <<LemmaItem(-1, <<>>, 3), UnitItem(<<-1>>)>>, <<LemmaItem(-2, <<-1, 2>>, -1)>>}
=============================================================================
