---------------------------- MODULE MCInspection ----------------------------
(* ArchiveInspection with files of every kind the parsers know.             *)
EXTENDS ArchiveInspection

Image(dirs, stem) == [name |-> Name(dirs, stem, ".jpg"), data |-> [kind |-> "image"]]
File(dirs, stem, suffix, data) == [name |-> Name(dirs, stem, suffix), data |-> data]

Lines(class) == [kind |-> "yolo", lines |-> << [class |-> class, coords |-> <<2, 2, 1, 1>>],
                                               [class |-> 3, coords |-> <<2>>],
                                               [class |-> -1, coords |-> <<0, 0, 1, 1>>],
                                               [class |-> 1, coords |-> <<0, 0, 2, 0, 2, 2>>] >>]
Config == [kind |-> "yaml", labels |-> [c \in {0} |-> "car"], pose |-> FALSE]
Shapes == [kind |-> "labelme", size |-> <<2, 2>>,
           shapes |-> << [label |-> "car", type |-> "rectangle", points |-> << <<4, 8>>, <<0, 4>> >>],
                         [label |-> "bike", type |-> "point", points |-> << <<4, 4>> >>],
                         [label |-> "car", type |-> "polygon", points |-> << >>] >>]
Objects == [kind |-> "voc", size |-> <<2, 2>>,
            objects |-> << [name |-> "bike", corners |-> <<0, 0, 4, 8>>],
                           [name |-> "car", corners |-> << >>] >>]
Document ==
  [kind |-> "coco", categories |-> [c \in {1} |-> "car"],
   images |-> << [id |-> 1, file |-> Name(<<"train", "images">>, "a", ".jpg"), size |-> <<2, 2>>],
                 [id |-> 2, file |-> Name(<< >>, "b", ".jpg"), size |-> <<2, 2>>],
                 [id |-> 3, file |-> Name(<<".", "test">>, "b", ".jpg"), size |-> <<2, 2>>],
                 [id |-> 4, file |-> Name(<<".data">>, "b", ".jpg"), size |-> <<2, 2>>] >>,
   annotations |-> << [image |-> 1, category |-> 1, box |-> <<0, 0, 4, 4>>, polygon |-> << >>,
                       keypoints |-> << >>],
                      [image |-> 2, category |-> 2, box |-> << >>, keypoints |-> << >>,
                       polygon |-> << <<0, 0>>, <<4, 0>>, <<4, 4>> >>],
                      [image |-> 3, category |-> -1, box |-> << >>, polygon |-> << >>,
                       keypoints |-> << >>] >>]

MCFiles ==
  { Image(<<"train", "images">>, "a"), Image(<<"train", "Images">>, "A"), Image(<<"images", "val">>, "b"),
    Image(<< >>, "a"), Image(<<"test">>, "b"), Image(<<".data">>, "b"),
    Image(<<".", "x", "..", "train", "images">>, "a"),
    File(<<"train", "labels">>, "a", ".txt", Lines(0)),
    File(<<"labels", "val">>, "b", ".txt", Lines(2)),
    File(<<"train", "annotations">>, "a", ".json", Shapes),
    File(<<"train", "images">>, "a", ".xml", Objects),
    File(<< >>, "a", ".json", [kind |-> "other"]),
    File(<<"images", "val">>, "b", ".json", [kind |-> "broken"]),
    File(<< >>, "data", ".yaml", Config),
    File(<< >>, "annotations", ".json", Document),
    File(<<"..">>, "b", ".txt", Lines(0)) }

MCClassNames == <<"bike", "car", "class_-1", "class_0", "class_1", "class_2">>

MCUndotted == [part \in {".", "..", "/", ".data"} |-> IF part = ".data" THEN "data" ELSE ""]

=============================================================================
