------------------------------ MODULE MCExport ------------------------------
(* ExportArchive with an archive of each format.                            *)
EXTENDS ExportArchive

Pixel(n) == n * Unit

YoloArchive ==
  << File(Name(<< >>, "data", ".yaml"), [kind |-> "yaml", labels |-> [c \in {0, 1} |-> IF c = 0 THEN "bike" ELSE "car"],
                                         pose |-> FALSE]),
     File(Name(<<"train", "images">>, "a", ".jpg"), Image),
     File(Name(<<"train", "labels">>, "a", ".txt"),
          [kind |-> "yolo", lines |-> << [class |-> 1, coords |-> <<2, 1, 2, 2>>],
                                         [class |-> 2, coords |-> <<0, 0, 4, 0, 4, 4>>] >>]) >>

CocoArchive ==
  << File(Name(<<"val">>, "b", ".jpg"), Image),
     File(Name(<< >>, "annotations", ".json"),
          [kind |-> "coco", categories |-> [c \in {1, 2} |-> IF c = 1 THEN "car" ELSE "bike"],
           images |-> << [id |-> 1, file |-> Name(<<"val">>, "b", ".jpg"), size |-> <<2, 2>>] >>,
           annotations |->
             << [image |-> 1, category |-> 2, box |-> <<Pixel(1), 0, Pixel(1), Pixel(2)>>,
                 polygon |-> << >>, keypoints |-> << >>],
                [image |-> 1, category |-> 1, box |-> << >>, keypoints |-> << >>,
                 polygon |-> << <<0, 0>>, <<Pixel(2), 0>>, <<Pixel(1), Pixel(1)>> >>] >>]) >>

LabelmeArchive ==
  << File(Name(<< >>, "c", ".png"), Image),
     File(Name(<< >>, "c", ".json"),
          [kind |-> "labelme", size |-> <<2, 2>>,
           shapes |-> << [label |-> "bike", type |-> "rectangle", points |-> << <<Pixel(1), Pixel(2)>>, <<0, 0>> >>],
                         [label |-> "car", type |-> "point", points |-> << <<Pixel(1), Pixel(1)>> >>] >>]),
     File(Name(<<"test", "images">>, "d", ".jpg"), Image),
     File(Name(<<"test", "labels">>, "d", ".xml"),
          [kind |-> "voc", size |-> <<2, 2>>,
           objects |-> << [name |-> "car", corners |-> <<0, 0, Pixel(2), Pixel(1)>>] >>]) >>

MCArchives == {YoloArchive, CocoArchive, LabelmeArchive}
MCFilters == {Everything, [parts |-> {1}, subsets |-> {"train", "test"}, classes |-> {1}, unannotated |-> FALSE]}
MCClassNames == <<"bike", "car", "class_2">>
MCUndotted == [part \in {} |-> ""]

\* The export is asked for when all Parts are there, in YOLO with either filter and
\* else of everything; faults happen to exports of different Parts in the formats whose
\* archives are read again; and nothing more happens once the export has ended.
Bounded ==
  \/ job.status = "absent"
  \/ /\ Len(versions) = MaxParts
     /\ job.asked = "yolo" \/ job.result.filter = Everything
     /\ faults > 0 => job.asked \in {"yolo", "coco"} /\ versions[1].archive # versions[2].archive
     /\ msgs > 0 \/ \E w \in Workers : worker[w].pc # "idle"

Symmetry == Permutations(Workers)

=============================================================================
