----------------------------- MODULE WordLists -----------------------------
(***************************************************************************)
(* The words of the thirteen languages a seed can be written in            *)
(* (mnemonics/<language>.h), as strings that Cut makes into sequences, and *)
(* what each language's constructor says of them.                          *)
(*                                                                         *)
(* Words are in lower case, as they are compared (WordEqual).  A letter    *)
(* that is not ASCII is a digit in the Latin lists (a, e, i, o, u, n with  *)
(* their accents 1 to 6, the German umlauts and sharp s 7, 8, 9, 0),       *)
(* a letter or digit of its own in the Russian one, a syllable of two      *)
(* letters in the Japanese one and four digits of its code in the Chinese. *)
(***************************************************************************)
EXTENDS Integers, Sequences

Chinese_Simplified_1 ==
  "7684 4e00 662f 5728 4e0d 4e86 6709 548c 4eba 8fd9 4e2d 5927 4e3a 4e0a 4e2a 56fd 6211 4ee5 "
  \o "8981 4ed6 65f6 6765 7528 4eec 751f 5230 4f5c 5730 4e8e 51fa 5c31 5206 5bf9 6210 4f1a 53ef "
  \o "4e3b 53d1 5e74 52a8 540c 5de5 4e5f 80fd 4e0b 8fc7 5b50 8bf4 4ea7 79cd 9762 800c 65b9 540e "
  \o "591a 5b9a 884c 5b66 6cd5 6240 6c11 5f97 7ecf 5341 4e09 4e4b 8fdb 7740 7b49 90e8 5ea6 5bb6 "
  \o "7535 529b 91cc 5982 6c34 5316 9ad8 81ea 4e8c 7406 8d77 5c0f 7269 73b0 5b9e 52a0 91cf 90fd "
  \o "4e24 4f53 5236 673a 5f53 4f7f 70b9 4ece 4e1a 672c 53bb 628a 6027 597d 5e94 5f00 5b83 5408 "
  \o "8fd8 56e0 7531 5176 4e9b 7136 524d 5916 5929 653f 56db 65e5 90a3 793e 4e49 4e8b 5e73 5f62 "
  \o "76f8 5168 8868 95f4 6837 4e0e 5173 5404 91cd 65b0 "
Chinese_Simplified_2 ==
  "7ebf 5185 6570 6b63 5fc3 53cd 4f60 660e 770b 539f 53c8 4e48 5229 6bd4 6216 4f46 8d28 6c14 "
  \o "7b2c 5411 9053 547d 6b64 53d8 6761 53ea 6ca1 7ed3 89e3 95ee 610f 5efa 6708 516c 65e0 7cfb "
  \o "519b 5f88 60c5 8005 6700 7acb 4ee3 60f3 5df2 901a 5e76 63d0 76f4 9898 515a 7a0b 5c55 4e94 "
  \o "679c 6599 8c61 5458 9769 4f4d 5165 5e38 6587 603b 6b21 54c1 5f0f 6d3b 8bbe 53ca 7ba1 7279 "
  \o "4ef6 957f 6c42 8001 5934 57fa 8d44 8fb9 6d41 8def 7ea7 5c11 56fe 5c71 7edf 63a5 77e5 8f83 "
  \o "5c06 7ec4 89c1 8ba1 522b 5979 624b 89d2 671f 6839 8bba 8fd0 519c 6307 51e0 4e5d 533a 5f3a "
  \o "653e 51b3 897f 88ab 5e72 505a 5fc5 6218 5148 56de 5219 4efb 53d6 636e 5904 961f 5357 7ed9 "
  \o "8272 5149 95e8 5373 4fdd 6cbb 5317 9020 767e 89c4 "
Chinese_Simplified_3 ==
  "70ed 9886 4e03 6d77 53e3 4e1c 5bfc 5668 538b 5fd7 4e16 91d1 589e 4e89 6d4e 9636 6cb9 601d "
  \o "672f 6781 4ea4 53d7 8054 4ec0 8ba4 516d 5171 6743 6536 8bc1 6539 6e05 7f8e 518d 91c7 8f6c "
  \o "66f4 5355 98ce 5207 6253 767d 6559 901f 82b1 5e26 5b89 573a 8eab 8f66 4f8b 771f 52a1 5177 "
  \o "4e07 6bcf 76ee 81f3 8fbe 8d70 79ef 793a 8bae 58f0 62a5 6597 5b8c 7c7b 516b 79bb 534e 540d "
  \o "786e 624d 79d1 5f20 4fe1 9a6c 8282 8bdd 7c73 6574 7a7a 5143 51b5 4eca 96c6 6e29 4f20 571f "
  \o "8bb8 6b65 7fa4 5e7f 77f3 8bb0 9700 6bb5 7814 754c 62c9 6797 5f8b 53eb 4e14 7a76 89c2 8d8a "
  \o "7ec7 88c5 5f71 7b97 4f4e 6301 97f3 4f17 4e66 5e03 590d 5bb9 513f 987b 9645 5546 975e 9a8c "
  \o "8fde 65ad 6df1 96be 8fd1 77ff 5343 5468 59d4 7d20 "
Chinese_Simplified_4 ==
  "6280 5907 534a 529e 9752 7701 5217 4e60 54cd 7ea6 652f 822c 53f2 611f 52b3 4fbf 56e2 5f80 "
  \o "9178 5386 5e02 514b 4f55 9664 6d88 6784 5e9c 79f0 592a 51c6 7cbe 503c 53f7 7387 65cf 7ef4 "
  \o "5212 9009 6807 5199 5b58 5019 6bdb 4eb2 5feb 6548 65af 9662 67e5 6c5f 578b 773c 738b 6309 "
  \o "683c 517b 6613 7f6e 6d3e 5c42 7247 59cb 5374 4e13 72b6 80b2 5382 4eac 8bc6 9002 5c5e 5706 "
  \o "5305 706b 4f4f 8c03 6ee1 53bf 5c40 7167 53c2 7ea2 7ec6 5f15 542c 8be5 94c1 4ef7 4e25 9996 "
  \o "5e95 6db2 5b98 5fb7 968f 75c5 82cf 5931 5c14 6b7b 8bb2 914d 5973 9ec4 63a8 663e 8c08 7f6a "
  \o "795e 827a 5462 5e2d 542b 4f01 671b 5bc6 6279 8425 9879 9632 4e3e 7403 82f1 6c27 52bf 544a "
  \o "674e 53f0 843d 6728 5e2e 8f6e 7834 4e9a 5e08 56f4 "
Chinese_Simplified_5 ==
  "6ce8 8fdc 5b57 6750 6392 4f9b 6cb3 6001 5c01 53e6 65bd 51cf 6811 6eb6 600e 6b62 6848 8a00 "
  \o "58eb 5747 6b66 56fa 53f6 9c7c 6ce2 89c6 4ec5 8d39 7d27 7231 5de6 7ae0 65e9 671d 5bb3 7eed "
  \o "8f7b 670d 8bd5 98df 5145 5175 6e90 5224 62a4 53f8 8db3 67d0 7ec3 5dee 81f4 677f 7530 964d "
  \o "9ed1 72af 8d1f 51fb 8303 7ee7 5174 4f3c 4f59 575a 66f2 8f93 4fee 6545 57ce 592b 591f 9001 "
  \o "7b14 8239 5360 53f3 8d22 5403 5bcc 6625 804c 89c9 6c49 753b 529f 5df4 8ddf 867d 6742 98de "
  \o "68c0 5438 52a9 5347 9633 4e92 521d 521b 6297 8003 6295 574f 7b56 53e4 5f84 6362 672a 8dd1 "
  \o "7559 94a2 66fe 7aef 8d23 7ad9 7b80 8ff0 94b1 526f 5c3d 5e1d 5c04 8349 51b2 627f 72ec 4ee4 "
  \o "9650 963f 5ba3 73af 53cc 8bf7 8d85 5fae 8ba9 63a7 "
Chinese_Simplified_6 ==
  "5dde 826f 8f74 627e 5426 7eaa 76ca 4f9d 4f18 9876 7840 8f7d 5012 623f 7a81 5750 7c89 654c "
  \o "7565 5ba2 8881 51b7 80dc 7edd 6790 5757 5242 6d4b 4e1d 534f 8bc9 5ff5 9648 4ecd 7f57 76d0 "
  \o "53cb 6d0b 9519 82e6 591c 5211 79fb 9891 9010 9760 6df7 6bcd 77ed 76ae 7ec8 805a 6c7d 6751 "
  \o "4e91 54ea 65e2 8ddd 536b 505c 70c8 592e 5bdf 70e7 8fc5 5883 82e5 5370 6d32 523b 62ec 6fc0 "
  \o "5b54 641e 751a 5ba4 5f85 6838 6821 6563 4fb5 5427 7532 6e38 4e45 83dc 5473 65e7 6a21 6e56 "
  \o "8d27 635f 9884 963b 6beb 666e 7a33 4e59 5988 690d 606f 6269 94f6 8bed 6325 9152 5b88 62ff "
  \o "5e8f 7eb8 533b 7f3a 96e8 5417 9488 5218 554a 6025 5531 8bef 8bad 613f 5ba1 9644 83b7 8336 "
  \o "9c9c 7cae 65a4 5b69 8131 786b 80a5 5584 9f99 6f14 "
Chinese_Simplified_7 ==
  "7236 6e10 8840 6b22 68b0 638c 6b4c 6c99 521a 653b 8c13 76fe 8ba8 665a 7c92 4e71 71c3 77db "
  \o "4e4e 6740 836f 5b81 9c81 8d35 949f 7164 8bfb 73ed 4f2f 9999 4ecb 8feb 53e5 4e30 57f9 63e1 "
  \o "5170 62c5 5f26 86cb 6c89 5047 7a7f 6267 7b54 4e50 8c01 987a 70df 7f29 5f81 8138 559c 677e "
  \o "811a 56f0 5f02 514d 80cc 661f 798f 4e70 67d3 4e95 6982 6162 6015 78c1 500d 7956 7687 4fc3 "
  \o "9759 8865 8bc4 7ffb 8089 8df5 5c3c 8863 5bbd 626c 68c9 5e0c 4f24 64cd 5782 79cb 5b9c 6c22 "
  \o "5957 7763 632f 67b6 4eae 672b 5baa 5e86 7f16 725b 89e6 6620 96f7 9500 8bd7 5ea7 5c45 6293 "
  \o "88c2 80de 547c 5a18 666f 5a01 7eff 6676 539a 76df 8861 9e21 5b59 5ef6 5371 80f6 5c4b 4e61 "
  \o "4e34 9646 987e 6389 5440 706f 5c81 63aa 675f 8010 "
Chinese_Simplified_8 ==
  "5267 7389 8d75 8df3 54e5 5b63 8bfe 51ef 80e1 989d 6b3e 7ecd 5377 9f50 4f1f 84b8 6b96 6c38 "
  \o "5b97 82d7 5ddd 7089 5ca9 5f31 96f6 6768 594f 6cbf 9732 6746 63a2 6ed1 9547 996d 6d53 822a "
  \o "6000 8d76 5e93 593a 4f0a 7075 7a0e 9014 706d 8d5b 5f52 53ec 9f13 64ad 76d8 88c1 9669 5eb7 "
  \o "552f 5f55 83cc 7eaf 501f 7cd6 76d6 6a2a 7b26 79c1 52aa 5802 57df 67aa 6da6 5e45 54c8 7adf "
  \o "719f 866b 6cfd 8111 58e4 78b3 6b27 904d 4fa7 5be8 6562 5f7b 8651 659c 8584 5ead 7eb3 5f39 "
  \o "9972 4f38 6298 9ea6 6e7f 6697 8377 74e6 585e 5e8a 7b51 6076 6237 8bbf 5854 5947 900f 6881 "
  \o "5200 65cb 8ff9 5361 6c2f 9047 4efd 6bd2 6ce5 9000 6d17 6446 7070 5f69 5356 8017 590f 62e9 "
  \o "5fd9 94dc 732e 786c 4e88 7e41 5708 96ea 51fd 4ea6 "
Chinese_Simplified_9 ==
  "62bd 7bc7 9635 9634 4e01 5c3a 8ffd 5806 96c4 8fce 6cdb 7238 697c 907f 8c0b 5428 91ce 732a "
  \o "65d7 7d2f 504f 5178 9986 7d22 79e6 8102 6f6e 7237 8c46 5ffd 6258 60ca 5851 9057 6108 6731 "
  \o "66ff 7ea4 7c97 503e 5c1a 75db 695a 8c22 594b 8d2d 78e8 541b 6c60 65c1 788e 9aa8 76d1 6355 "
  \o "5f1f 66b4 5272 8d2f 6b8a 91ca 8bcd 4ea1 58c1 987f 5b9d 5348 5c18 95fb 63ed 70ae 6b8b 51ac "
  \o "6865 5987 8b66 7efc 62db 5434 4ed8 6d6e 906d 5f90 60a8 6447 8c37 8d5e 7bb1 9694 8ba2 7537 "
  \o "5439 56ed 7eb7 5510 8d25 5b8b 73bb 5de8 8015 5766 8363 95ed 6e7e 952e 51e1 9a7b 9505 6551 "
  \o "6069 5265 51dd 78b1 9f7f 622a 70bc 9ebb 7eba 7981 5e9f 76db 7248 7f13 51c0 775b 660c 5a5a "
  \o "6d89 7b52 5634 63d2 5cb8 6717 5e84 8857 85cf 59d1 "
Chinese_Simplified_10 ==
  "8d38 8150 5974 5566 60ef 4e58 4f19 6062 5300 7eb1 624e 8fa9 8033 5f6a 81e3 4ebf 7483 62b5 "
  \o "8109 79c0 8428 4fc4 7f51 821e 5e97 55b7 7eb5 5bf8 6c57 6302 6d2a 8d3a 95ea 67ec 7206 70ef "
  \o "6d25 7a3b 5899 8f6f 52c7 50cf 6eda 5398 8499 82b3 80af 5761 67f1 8361 817f 4eea 65c5 5c3e "
  \o "8f67 51b0 8d21 767b 9ece 524a 94bb 52d2 9003 969c 6c28 90ed 5cf0 5e01 6e2f 4f0f 8f68 4ea9 "
  \o "6bd5 64e6 83ab 523a 6d6a 79d8 63f4 682a 5065 552e 80a1 5c9b 7518 6ce1 7761 7ae5 94f8 6c64 "
  \o "9600 4f11 6c47 820d 7267 7ed5 70b8 54f2 78f7 7ee9 670b 6de1 5c16 542f 9677 67f4 5448 5f92 "
  \o "989c 6cea 7a0d 5fd8 6cf5 84dd 62d6 6d1e 6388 955c 8f9b 58ee 950b 8d2b 865a 5f2f 6469 6cf0 "
  \o "5e7c 5ef7 5c0a 7a97 7eb2 5f04 96b6 7591 6c0f 5bab "
Chinese_Simplified_11 ==
  "59d0 9707 745e 602a 5c24 7434 5faa 63cf 819c 8fdd 5939 8170 7f18 73e0 7a77 68ee 679d 7af9 "
  \o "6c9f 50ac 7ef3 5fc6 90a6 5269 5e78 6d46 680f 62e5 7259 8d2e 793c 6ee4 94a0 7eb9 7f62 62cd "
  \o "54b1 558a 8896 57c3 52e4 7f5a 7126 6f5c 4f0d 58a8 6b32 7f1d 59d3 520a 9971 4eff 5956 94dd "
  \o "9b3c 4e3d 8de8 9ed8 6316 94fe 626b 559d 888b 70ad 6c61 5e55 8bf8 5f27 52b1 6885 5976 6d01 "
  \o "707e 821f 9274 82ef 8bbc 62b1 6bc1 61c2 5bd2 667a 57d4 5bc4 5c4a 8dc3 6e21 6311 4e39 8270 "
  \o "8d1d 78b0 62d4 7239 6234 7801 68a6 82bd 7194 8d64 6e14 54ed 656c 9897 5954 94c5 4ef2 864e "
  \o "7a00 59b9 4e4f 73cd 7533 684c 9075 5141 9686 87ba 4ed3 9b4f 9510 6653 6c2e 517c 9690 788d "
  \o "8d6b 62e8 5fe0 8083 7f38 7275 62a2 535a 5de7 58f3 "
Chinese_Simplified_12 ==
  "5144 675c 8baf 8bda 78a7 7965 67ef 9875 5de1 77e9 60b2 704c 9f84 4f26 7968 5bfb 6842 94fa "
  \o "5723 6050 6070 90d1 8da3 62ac 8352 817e 8d34 67d4 6ef4 731b 9614 8f86 59bb 586b 64a4 50a8 "
  \o "7b7e 95f9 6270 7d2b 7802 9012 620f 540a 9676 4f10 5582 7597 74f6 5a46 629a 81c2 6478 5fcd "
  \o "867e 8721 90bb 80f8 5de9 6324 5076 5f03 69fd 52b2 4e73 9093 5409 4ec1 70c2 7816 79df 4e4c "
  \o "8230 4f34 74dc 6d45 4e19 6682 71e5 6a61 67f3 8ff7 6696 724c 79e7 80c6 8be6 7c27 8e0f 74f7 "
  \o "8c31 5446 5bbe 7cca 6d1b 8f89 6124 7ade 9699 6012 7c98 4e43 7eea 80a9 7c4d 654f 6d82 7199 "
  \o "7686 4fa6 60ac 6398 4eab 7ea0 9192 72c2 9501 6dc0 6068 7272 9738 722c 8d4f 9006 73a9 9675 "
  \o "795d 79d2 6d59 8c8c "

English_1 ==
  "abbey abducts ability ablaze abnormal abort abrasive absorb abyss academy aces aching "
  \o "acidic acoustic acquire across actress acumen adapt addicted adept adhesive adjust adopt "
  \o "adrenalin adult adventure aerial afar affair afield afloat afoot afraid after against "
  \o "agenda aggravate agile aglow agnostic agony agreed ahead aided ailments aimless airport "
  \o "aisle ajar akin alarms album alchemy alerts algebra alkaline alley almost aloof alpine "
  \o "already also altitude alumni always amaze ambush amended amidst ammo amnesty among amply "
  \o "amused anchor android anecdote angled ankle annoyed answers antics anvil anxiety anybody "
  \o "apart apex aphid aplomb apology apply apricot aptitude aquarium arbitrary archer ardent "
  \o "arena argue arises army around arrow arsenic artistic ascend ashtray aside asked asleep "
  \o "aspire assorted asylum athlete atlas atom atrium attire auburn auctions audio august aunt "
  \o "austere autumn avatar avidly avoid awakened awesome awful awkward awning awoken axes "
English_2 ==
  "axis axle aztec azure baby bacon badge baffles bagpipe bailed bakery balding bamboo banjo "
  \o "baptism basin batch bawled bays because beer befit begun behind being below bemused benches "
  \o "berries bested betting bevel beware beyond bias bicycle bids bifocals biggest bikini "
  \o "bimonthly binocular biology biplane birth biscuit bite biweekly blender blip bluntly boat "
  \o "bobsled bodies bogeys boil boldly bomb border boss both bounced bovine bowling boxes "
  \o "boyfriend broken brunt bubble buckets budget buffet bugs building bulb bumper bunch "
  \o "business butter buying buzzer bygones byline bypass cabin cactus cadets cafe cage cajun "
  \o "cake calamity camp candy casket catch cause cavernous cease cedar ceiling cell cement cent "
  \o "certain chlorine chrome cider cigar cinema circle cistern citadel civilian claim click clue "
  \o "coal cobra cocoa code coexist coffee cogs cohesive coils colony comb cool copy corrode "
  \o "costume cottage cousin cowl criminal "
English_3 ==
  "cube cucumber cuddled cuffs cuisine cunning cupcake custom cycling cylinder cynical dabbing "
  \o "dads daft dagger daily damp dangerous dapper darted dash dating dauntless dawn daytime "
  \o "dazed debut decay dedicated deepest deftly degrees dehydrate deity dejected delayed "
  \o "demonstrate dented deodorant depth desk devoid dewdrop dexterity dialect dice diet "
  \o "different digit dilute dime dinner diode diplomat directed distance ditch divers dizzy "
  \o "doctor dodge does dogs doing dolphin domestic donuts doorway dormant dosage dotted double "
  \o "dove down dozen dreams drinks drowning drunk drying dual dubbed duckling dude duets duke "
  \o "dullness dummy dunes duplex duration dusted duties dwarf dwelt dwindling dying dynamite "
  \o "dyslexic each eagle earth easy eating eavesdrop eccentric echo eclipse economics ecstatic "
  \o "eden edgy edited educated eels efficient eggs egotistic eight either eject elapse elbow "
  \o "eldest eleven elite elope else eluded emails ember emerge emit emotion empty emulate "
English_4 ==
  "energy enforce enhanced enigma enjoy enlist enmity enough enraged ensign entrance envy "
  \o "epoxy equip erase erected erosion error eskimos espionage essential estate etched eternal "
  \o "ethics etiquette evaluate evenings evicted evolved examine excess exhale exit exotic "
  \o "exquisite extra exult fabrics factual fading fainted faked fall family fancy farming fatal "
  \o "faulty fawns faxed fazed feast february federal feel feline females fences ferry festival "
  \o "fetches fever fewest fiat fibula fictional fidget fierce fifteen fight films firm fishing "
  \o "fitting five fixate fizzle fleet flippant flying foamy focus foes foggy foiled folding "
  \o "fonts foolish fossil fountain fowls foxes foyer framed friendly frown fruit frying fudge "
  \o "fuel fugitive fully fuming fungal furnished fuselage future fuzzy gables gadget gags gained "
  \o "galaxy gambit gang gasp gather gauze gave gawk gaze gearbox gecko geek gels gemstone "
  \o "general geometry germs gesture getting geyser ghetto ghost giant "
English_5 ==
  "giddy gifts gigantic gills gimmick ginger girth giving glass gleeful glide gnaw gnome goat "
  \o "goblet godfather goes goggles going goldfish gone goodbye gopher gorilla gossip gotten "
  \o "gourmet governing gown greater grunt guarded guest guide gulp gumball guru gusts gutter "
  \o "guys gymnast gypsy gyrate habitat hacksaw haggled hairy hamburger happens hashing hatchet "
  \o "haunted having hawk haystack hazard hectare hedgehog heels hefty height hemlock hence heron "
  \o "hesitate hexagon hickory hiding highway hijack hiker hills himself hinder hippo hire "
  \o "history hitched hive hoax hobby hockey hoisting hold honked hookup hope hornet hospital "
  \o "hotel hounded hover howls hubcaps huddle huge hull humid hunter hurried husband huts hybrid "
  \o "hydrogen hyper iceberg icing icon identity idiom idled idols igloo ignore iguana illness "
  \o "imagine imbalance imitate impel inactive inbound incur industrial inexact inflamed ingested "
  \o "initiate injury inkling inline inmate innocent inorganic input inquest "
English_6 ==
  "inroads insult intended inundate invoke inwardly ionic irate iris irony irritate island "
  \o "isolated issued italics itches items itinerary itself ivory jabbed jackets jaded jagged "
  \o "jailed jamming january jargon jaunt javelin jaws jazz jeans jeers jellyfish jeopardy "
  \o "jerseys jester jetting jewels jigsaw jingle jittery jive jobs jockey jogger joining joking "
  \o "jolted jostle journal joyous jubilee judge juggled juicy jukebox july jump junk jury "
  \o "justice juvenile kangaroo karate keep kennel kept kernels kettle keyboard kickoff kidneys "
  \o "king kiosk kisses kitchens kiwi knapsack knee knife knowledge knuckle koala laboratory "
  \o "ladder lagoon lair lakes lamb language laptop large last later launching lava lawsuit "
  \o "layout lazy lectures ledge leech left legion leisure lemon lending leopard lesson lettuce "
  \o "lexicon liar library licks lids lied lifestyle light likewise lilac limits linen lion "
  \o "lipstick liquid listen lively loaded lobster locker lodge lofty logic loincloth "
English_7 ==
  "long looking lopped lordship losing lottery loudly love lower loyal lucky luggage lukewarm "
  \o "lullaby lumber lunar lurk lush luxury lymph lynx lyrics macro madness magically mailed "
  \o "major makeup malady mammal maps masterful match maul maverick maximum mayor maze meant "
  \o "mechanic medicate meeting megabyte melting memoir menu merger mesh metro mews mice midst "
  \o "mighty mime mirror misery mittens mixture moat mobile mocked mohawk moisture molten moment "
  \o "money moon mops morsel mostly motherly mouth movement mowing much muddy muffin mugged "
  \o "mullet mumble mundane muppet mural musical muzzle myriad mystery myth nabbing nagged nail "
  \o "names nanny napkin narrate nasty natural nautical navy nearby necklace needed negative "
  \o "neither neon nephew nerves nestle network neutral never newt nexus nibs niche niece nifty "
  \o "nightly nimbly nineteen nirvana nitrogen nobody nocturnal nodes noises nomad noodles "
  \o "northern nostril noted nouns novelty nowhere nozzle nuance "
English_8 ==
  "nucleus nudged nugget nuisance null number nuns nurse nutshell nylon oaks oars oasis "
  \o "oatmeal obedient object obliged obnoxious observant obtains obvious occur ocean october "
  \o "odds odometer offend often oilfield ointment okay older olive olympics omega omission "
  \o "omnibus onboard oncoming oneself ongoing onion online onslaught onto onward oozed opacity "
  \o "opened opposite optical opus orange orbit orchid orders organs origin ornament orphans "
  \o "oscar ostrich otherwise otter ouch ought ounce ourselves oust outbreak oval oven owed owls "
  \o "owner oxidant oxygen oyster ozone pact paddles pager pairing palace pamphlet pancakes paper "
  \o "paradise pastry patio pause pavements pawnshop payment peaches pebbles peculiar pedantic "
  \o "peeled pegs pelican pencil people pepper perfect pests petals phase pheasants phone phrases "
  \o "physics piano picked pierce pigment piloted pimple pinched pioneer pipeline pirate pistons "
  \o "pitched pivot pixels pizza playful pledge pliers plotting plus plywood poaching pockets "
  \o "podcast "
English_9 ==
  "poetry point poker polar ponies pool popular portents possible potato pouch poverty powder "
  \o "pram present pride problems pruned prying psychic public puck puddle puffin pulp pumpkins "
  \o "punch puppy purged push putty puzzled pylons pyramid python queen quick quote rabbits "
  \o "racetrack radar rafts rage railway raking rally ramped randomly rapid rarest rash rated "
  \o "ravine rays razor react rebel recipe reduce reef refer regular reheat reinvest rejoices "
  \o "rekindle relic remedy renting reorder repent request reruns rest return reunion revamp "
  \o "rewind rhino rhythm ribbon richly ridges rift rigid rims ringing riots ripped rising ritual "
  \o "river roared robot rockets rodent rogue roles romance roomy roped roster rotate rounded "
  \o "rover rowboat royal ruby rudely ruffled rugged ruined ruling rumble runway rural rustled "
  \o "ruthless sabotage sack sadness safety saga sailor sake salads sample sanity sapling sarcasm "
  \o "sash satin saucepan saved sawmill saxophone "
English_10 ==
  "sayings scamper scenic school science scoop scrub scuba seasons second sedan seeded "
  \o "segments seismic selfish semifinal sensible september sequence serving session setup "
  \o "seventh sewage shackles shelter shipped shocking shrugged shuffled shyness siblings "
  \o "sickness sidekick sieve sifting sighting silk simplest sincerely sipped siren situated "
  \o "sixteen sizes skater skew skirting skulls skydive slackens sleepless slid slower slug smash "
  \o "smelting smidgen smog smuggled snake sneeze sniff snout snug soapy sober soccer soda "
  \o "software soggy soil solved somewhere sonic soothe soprano sorry southern sovereign sowed "
  \o "soya space speedy sphere spiders splendid spout sprig spud spying square stacking stellar "
  \o "stick stockpile strained stunning stylishly subtly succeed suddenly suede suffice sugar "
  \o "suitcase sulking summon sunken superior surfer sushi suture swagger swept swiftly sword "
  \o "swung syllabus symptoms syndrome syringe system taboo tacit tadpoles tagged tail taken "
  \o "talent tamper tanks tapestry tarnished tasked tattoo "
English_11 ==
  "taunts tavern tawny taxi teardrop technical tedious teeming tell template tender tepid "
  \o "tequila terminal testing tether textbook thaw theatrics thirsty thorn threaten thumbs "
  \o "thwart ticket tidy tiers tiger tilt timber tinted tipsy tirade tissue titans toaster "
  \o "tobacco today toenail toffee together toilet token tolerant tomorrow tonic toolbox topic "
  \o "torch tossed total touchy towel toxic toyed trash trendy tribal trolling truth trying "
  \o "tsunami tubes tucks tudor tuesday tufts tugs tuition tulips tumbling tunnel turnip tusks "
  \o "tutor tuxedo twang tweezers twice twofold tycoon typist tyrant ugly ulcers ultimate "
  \o "umbrella umpire unafraid unbending uncle under uneven unfit ungainly unhappy union unjustly "
  \o "unknown unlikely unmask unnoticed unopened unplugs unquoted unrest unsafe until unusual "
  \o "unveil unwind unzip upbeat upcoming update upgrade uphill upkeep upload upon upper upright "
  \o "upstairs uptight upwards urban urchins urgent usage useful usher using usual utensils "
  \o "utility utmost "
English_12 ==
  "utopia uttered vacation vague vain value vampire vane vapidly vary vastness vats vaults "
  \o "vector veered vegan vehicle vein velvet venomous verification vessel veteran vexed vials "
  \o "vibrate victim video viewpoint vigilant viking village vinegar violin vipers virtual "
  \o "visited vitals vivid vixen vocal vogue voice volcano vortex voted voucher vowels voyage "
  \o "vulture wade waffle wagtail waist waking wallets wanted warped washing water waveform "
  \o "waxing wayside weavers website wedge weekday weird welders went wept were western wetsuit "
  \o "whale when whipped whole wickets width wield wife wiggle wildly winter wipeout wiring wise "
  \o "withdrawn wives wizard wobbly woes woken wolf womanly wonders woozy worry wounded woven "
  \o "wrap wrist wrong yacht yahoo yanks yard yawning yearbook yellow yesterday yeti yields yodel "
  \o "yoga younger yoyo zapped zeal zebra zero zesty zigzags zinger zippers zodiac zombie zones "
  \o "zoom "

Dutch_1 ==
  "aalglad aalscholver aambeeld aangeef aanlandig aanvaard aanwakker aapmens aarten abdicatie "
  \o "abnormaal abrikoos accu acuut adjudant admiraal advies afbidding afdracht affaire affiche "
  \o "afgang afkick afknap aflees afmijner afname afpreekt afrader afspeel aftocht aftrek "
  \o "afzijdig ahornboom aktetas akzo alchemist alcohol aldaar alexander alfabet alfredo alice "
  \o "alikruik allrisk altsax alufolie alziend amai ambacht ambieer amina amnestie amok ampul "
  \o "amuzikaal angela aniek antje antwerpen anya aorta apache apekool appelaar arganolie "
  \o "argeloos armoede arrenslee artritis arubaan asbak ascii asgrauw asjes asml aspunt asurn "
  \o "asveld aterling atomair atrium atsma atypisch auping aura avifauna axiaal azoriaan azteek "
  \o "azuur bachelor badderen badhotel badmantel badsteden balie ballans balvers bamibal "
  \o "banneling barracuda basaal batelaan batje beambte bedlamp bedwelmd befaamd begierd begraaf "
  \o "behield beijaard bejaagd bekaaid beks bektas belaad belboei belderbos beloerd beluchten "
  \o "bemiddeld benadeeld benijd berechten beroemd besef besseling best betichten bevind "
  \o "bevochten bevraagd bewust bidplaats "
Dutch_2 ==
  "biefstuk biemans biezen bijbaan bijeenkom bijfiguur bijkaart bijlage bijpaard bijtgaar "
  \o "bijweg bimmel binck bint biobak biotisch biseks bistro bitter bitumen bizar blad bleken "
  \o "blender bleu blief blijven blozen bock boef boei boks bolder bolus bolvormig bomaanval "
  \o "bombarde bomma bomtapijt bookmaker boos borg bosbes boshuizen bosloop botanicus bougie "
  \o "bovag boxspring braad brasem brevet brigade brinckman bruid budget buffel buks bulgaar buma "
  \o "butaan butler buuf cactus cafeetje camcorder cannabis canyon capoeira capsule carkit "
  \o "casanova catalaan ceintuur celdeling celplasma cement censeren ceramisch cerberus cerebraal "
  \o "cesium cirkel citeer civiel claxon clenbuterol clicheren clijsen coalitie coassistentschap "
  \o "coaxiaal codetaal cofinanciering cognac coltrui comfort commandant condensaat confectie "
  \o "conifeer convector copier corfu correct coup couvert creatie credit crematie cricket "
  \o "croupier cruciaal cruijff cuisine culemborg culinair curve cyrano dactylus dading dagblind "
  \o "dagje daglicht dagprijs dagranden dakdekker dakpark dakterras dalgrond dambord damkat "
  \o "damlengte damman danenberg debbie "
Dutch_3 ==
  "decibel defect deformeer degelijk degradant dejonghe dekken deppen derek derf derhalve "
  \o "detineren devalueer diaken dicht dictaat dief digitaal dijbreuk dijkmans dimbaar dinsdag "
  \o "diode dirigeer disbalans dobermann doenbaar doerak dogma dokhaven dokwerker doling dolphijn "
  \o "dolven dombo dooraderd dopeling doping draderig drama drenkbak dreumes drol drug duaal "
  \o "dublin duplicaat durven dusdanig dutchbat dutje dutten duur duwwerk dwaal dweil dwing "
  \o "dyslexie ecostroom ecotaks educatie eeckhout eede eemland eencellig eeneiig eenruiter "
  \o "eenwinter eerenberg eerrover eersel eetmaal efteling egaal egtberts eickhoff eidooier "
  \o "eiland eind eisden ekster elburg elevatie elfkoppig elfrink elftal elimineer elleboog elma "
  \o "elodie elsa embleem embolie emoe emonds emplooi enduro enfin engageer entourage entstof "
  \o "epileer episch eppo erasmus erboven erebaan erelijst ereronden ereteken erfhuis erfwet "
  \o "erger erica ermitage erna ernie erts ertussen eruitzien ervaar erven erwt esbeek escort "
  \o "esdoorn essing etage eter ethanol ethicus etholoog eufonisch eurocent evacuatie exact "
Dutch_4 ==
  "examen executant exen exit exogeen exotherm expeditie expletief expres extase extinctie "
  \o "faal faam fabel facultair fakir fakkel faliekant fallisch famke fanclub fase fatsoen fauna "
  \o "federaal feedback feest feilbaar feitelijk felblauw figurante fiod fitheid fixeer flap "
  \o "fleece fleur flexibel flits flos flow fluweel foezelen fokkelman fokpaard fokvee folder "
  \o "follikel folmer folteraar fooi foolen forfait forint formule fornuis fosfaat foxtrot foyer "
  \o "fragiel frater freak freddie fregat freon frijnen fructose frunniken fuiven funshop furieus "
  \o "fysica gadget galder galei galg galvlieg galzuur ganesh gaswet gaza gazelle geaaid gebiecht "
  \o "gebufferd gedijd geef geflanst gefreesd gegaan gegijzeld gegniffel gegraaid gehikt "
  \o "gehobbeld gehucht geiser geiten gekaakt gekheid gekijf gekmakend gekocht gekskap gekte "
  \o "gelubberd gemiddeld geordend gepoederd gepuft gerda gerijpt geseald geshockt gesierd "
  \o "geslaagd gesnaaid getracht getwijfel geuit gevecht gevlagd gewicht gezaagd gezocht ghanees "
  \o "giebelen giechel giepmans gips giraal gistachtig gitaar glaasje gletsjer gleuf "
Dutch_5 ==
  "glibberen glijbaan gloren gluipen gluren gluur gnoe goddelijk godgans godschalk godzalig "
  \o "goeierd gogme goklustig gokwereld gonggrijp gonje goor grabbel graf graveer grif grolleman "
  \o "grom groosman grubben gruijs grut guacamole guido guppy haazen hachelijk haex haiku hakhout "
  \o "hakken hanegem hans hanteer harrie hazebroek hedonist heil heineken hekhuis hekman helbig "
  \o "helga helwegen hengelaar herkansen hermafrodiet hertaald hiaat hikspoors hitachi hitparade "
  \o "hobo hoeve holocaust hond honnepon hoogacht hotelbed hufter hugo huilbier hulk humus "
  \o "huwbaar huwelijk hype iconisch idema ideogram idolaat ietje ijker ijkheid ijklijn ijkmaat "
  \o "ijkwezen ijmuiden ijsbox ijsdag ijselijk ijskoud ilse immuun impliceer impuls inbijten "
  \o "inbuigen indijken induceer indy infecteer inhaak inkijk inluiden inmijnen inoefenen "
  \o "inpolder inrijden inslaan invitatie inwaaien ionisch isaac isolatie isotherm isra italiaan "
  \o "ivoor jacobs jakob jammen jampot jarig jehova jenever jezus joana jobdienst josua joule "
  \o "juich jurk juut kaas kabelaar kabinet kagenaar kajuit kalebas "
Dutch_6 ==
  "kalm kanjer kapucijn karregat kart katvanger katwijk kegelaar keiachtig keizer kenletter "
  \o "kerdijk keus kevlar kezen kickback kieviet kijken kikvors kilheid kilobit kilsdonk "
  \o "kipschnitzel kissebis klad klagelijk klak klapbaar klaver klene klets klijnhout klit klok "
  \o "klonen klotefilm kluif klumper klus knabbel knagen knaven kneedbaar knmi knul knus kokhals "
  \o "komiek komkommer kompaan komrij komvormig koning kopbal kopklep kopnagel koppejan koptekst "
  \o "kopwand koraal kosmisch kostbaar kram kraneveld kras kreling krengen kribbe krik kruid "
  \o "krulbol kuijper kuipbank kuit kuiven kutsmoes kuub kwak kwatong kwetsbaar kwezelaar kwijnen "
  \o "kwik kwinkslag kwitantie lading lakbeits lakken laklaag lakmoes lakwijk lamheid lamp "
  \o "lamsbout lapmiddel larve laser latijn latuw lawaai laxeerpil lebberen ledeboer leefbaar "
  \o "leeman lefdoekje lefhebber legboor legsel leguaan leiplaat lekdicht lekrijden leksteen "
  \o "lenen leraar lesbienne leugenaar leut lexicaal lezing lieten liggeld lijdzaam lijk "
  \o "lijmstang lijnschip likdoorn likken liksteen limburg link linoleum lipbloem lipman lispelen "
Dutch_7 ==
  "lissabon litanie liturgie lochem loempia loesje logheid lonen lonneke loom loos losbaar "
  \o "loslaten losplaats loting lotnummer lots louie lourdes louter lowbudget luijten luikenaar "
  \o "luilak luipaard luizenbos lulkoek lumen lunzen lurven lutjeboer luttel lutz luuk luwte "
  \o "luyendijk lyceum lynx maakbaar magdalena malheid manchet manfred manhaftig mank mantel "
  \o "marion marxist masmeijer massaal matsen matverf matze maude mayonaise mechanica meifeest "
  \o "melodie meppelink midvoor midweeks midzomer miezel mijnraad minus mirck mirte mispakken "
  \o "misraden miswassen mitella moker molecule mombakkes moonen mopperaar moraal morgana mormel "
  \o "mosselaar motregen mouw mufheid mutueel muzelman naaidoos naald nadeel nadruk nagy nahon "
  \o "naima nairobi napalm napels napijn napoleon narigheid narratief naseizoen nasibal navigatie "
  \o "nawijn negatief nekletsel nekwervel neolatijn neonataal neptunus nerd nest neuzelaar "
  \o "nihiliste nijenhuis nijging nijhoff nijl nijptang nippel nokkenas noordam noren normaal "
  \o "nottelman notulant nout nuance nuchter nudorp nulde nullijn nulmeting nunspeet nylon "
  \o "obelisk object "
Dutch_8 ==
  "oblie obsceen occlusie oceaan ochtend ockhuizen oerdom oergezond oerlaag oester okhuijsen "
  \o "olifant olijfboer omaans ombudsman omdat omdijken omdoen omgebouwd omkeer omkomen ommegaand "
  \o "ommuren omroep omruil omslaan omsmeden omvaar onaardig onedel onenig onheilig onrecht "
  \o "onroerend ontcijfer onthaal ontvallen ontzadeld onzacht onzin onzuiver oogappel ooibos "
  \o "ooievaar ooit oorarts oorhanger oorijzer oorklep oorschelp oorworm oorzaak opdagen opdien "
  \o "opdweilen opel opgebaard opinie opjutten opkijken opklaar opkuisen opkwam opnaaien opossum "
  \o "opsieren opsmeer optreden opvijzel opvlammen opwind oraal orchidee orkest ossuarium "
  \o "ostendorf oublie oudachtig oudbakken oudnoors oudshoorn oudtante oven over oxidant pablo "
  \o "pacht paktafel pakzadel paljas panharing papfles paprika parochie paus pauze paviljoen peek "
  \o "pegel peigeren pekela pendant penibel pepmiddel peptalk periferie perron pessarium peter "
  \o "petfles petgat peuk pfeifer picknick pief pieneman pijlkruid pijnacker pijpelink pikdonker "
  \o "pikeer pilaar pionier pipet piscine pissebed pitchen pixel plamuren plan plausibel plegen "
  \o "plempen pleonasme plezant podoloog "
Dutch_9 ==
  "pofmouw pokdalig ponywagen popachtig popidool porren positie potten pralen prezen prijzen "
  \o "privaat proef prooi prozawerk pruik prul publiceer puck puilen pukkelig pulveren pupil "
  \o "puppy purmerend pustjens putemmer puzzelaar queenie quiche raam raar raat raes ralf rally "
  \o "ramona ramselaar ranonkel rapen rapunzel rarekiek rarigheid rattenhol ravage reactie "
  \o "recreant redacteur redster reewild regie reijnders rein replica revanche rigide rijbaan "
  \o "rijdansen rijgen rijkdom rijles rijnwijn rijpma rijstafel rijtaak rijzwepen rioleer ripdeal "
  \o "riphagen riskant rits rivaal robbedoes robot rockact rodijk rogier rohypnol rollaag rolpaal "
  \o "roltafel roof roon roppen rosbief rosharig rosielle rotan rotleven rotten rotvaart royaal "
  \o "royeer rubato ruby ruche rudge ruggetje rugnummer rugpijn rugtitel rugzak ruilbaar ruis "
  \o "ruit rukwind rulijs rumoeren rumsdorp rumtaart runnen russchen ruwkruid saboteer saksisch "
  \o "salade salpeter sambabal samsam satelliet satineer saus scampi scarabee scenario schobben "
  \o "schubben scout secessie secondair seculair sediment seeland settelen setwinst sheriff "
Dutch_10 ==
  "shiatsu siciliaan sidderaal sigma sijben silvana simkaart sinds situatie sjaak sjardijn "
  \o "sjezen sjor skinhead skylab slamixen sleijpen slijkerig slordig slowaak sluieren smadelijk "
  \o "smiecht smoel smos smukken snackcar snavel sneaker sneu snijdbaar snit snorder soapbox "
  \o "soetekouw soigneren sojaboon solo solvabel somber sommatie soort soppen sopraan soundbar "
  \o "spanen spawater spijgat spinaal spionage spiraal spleet splijt spoed sporen spul spuug spuw "
  \o "stalen standaard star stefan stencil stijf stil stip stopdas stoten stoven straat strobbe "
  \o "strubbel stucadoor stuif stukadoor subhoofd subregent sudoku sukade sulfaat surinaams suus "
  \o "syfilis symboliek sympathie synagoge synchroon synergie systeem taanderij tabak tachtig "
  \o "tackelen taiwanees talman tamheid tangaslip taps tarkan tarwe tasman tatjana taxameter teil "
  \o "teisman telbaar telco telganger telstar tenant tepel terzet testament ticket tiesinga "
  \o "tijdelijk tika tiksel tilleman timbaal tinsteen tiplijn tippelaar tjirpen toezeggen tolbaas "
  \o "tolgeld tolhek tolo tolpoort toltarief tolvrij tomaat tondeuse toog tooi "
Dutch_11 ==
  "toonbaar toos topclub toppen toptalent topvrouw toque torment tornado tosti totdat toucheer "
  \o "toulouse tournedos tout trabant tragedie trailer traject traktaat trauma tray trechter tred "
  \o "tref treur troebel tros trucage truffel tsaar tucht tuenter tuitelig tukje tuktuk tulp tuma "
  \o "tureluurs twijfel twitteren tyfoon typograaf ugandees uiachtig uier uisnipper ultiem "
  \o "unitair uranium urbaan urendag ursula uurcirkel uurglas uzelf vaat vakantie vakleraar "
  \o "valbijl valpartij valreep valuatie vanmiddag vanonder varaan varken vaten veenbes veeteler "
  \o "velgrem vellekoop velvet veneberg venlo vent venusberg venw veredeld verf verhaaf vermaak "
  \o "vernaaid verraad vers veruit verzaagd vetachtig vetlok vetmesten veto vetrek vetstaart "
  \o "vetten veurink viaduct vibrafoon vicariaat vieux vieveen vijfvoud villa vilt vimmetje "
  \o "vindbaar vips virtueel visdieven visee visie vlaag vleugel vmbo vocht voesenek voicemail "
  \o "voip volg vork vorselaar voyeur vracht vrekkig vreten vrije vrozen vrucht vucht vugt "
  \o "vulkaan vulmiddel vulva vuren waas wacht wadvogel "
Dutch_12 ==
  "wafel waffel walhalla walnoot walraven wals walvis wandaad wanen wanmolen want warklomp "
  \o "warm wasachtig wasteil watt webhandel weblog webpagina webzine wedereis wedstrijd weeda "
  \o "weert wegmaaien wegscheer wekelijks wekken wekroep wektoon weldaad welwater wendbaar "
  \o "wenkbrauw wens wentelaar wervel wesseling wetboek wetmatig whirlpool wijbrands wijdbeens "
  \o "wijk wijnbes wijting wild wimpelen wingebied winplaats winter winzucht wipstaart wisgerhof "
  \o "withaar witmaker wokkel wolf wonenden woning worden worp wortel wrat wrijf wringen yoghurt "
  \o "ypsilon zaaijer zaak zacharias zakelijk zakkam zakwater zalf zalig zaniken zebracode "
  \o "zeeblauw zeef zeegaand zeeuw zege zegje zeil zesbaans zesenhalf zeskantig zesmaal zetbaas "
  \o "zetpil zeulen ziezo zigzag zijaltaar zijbeuk zijlijn zijmuur zijn zijwaarts zijzelf zilt "
  \o "zimmerman zinledig zinnelijk zionist zitdag zitruimte zitzak zoal zodoende zoekbots zoem "
  \o "zoiets zojuist zondaar zotskap zottebol zucht zuivel zulk zult zuster zuur zweedijk zwendel "
  \o "zwepen zwiep zwijmel zworen "

French_1 ==
  "abandon abattre aboi abolir aborder abri absence absolu abuser acacia acajou accent accord "
  \o "accrocher accuser acerbe achat acheter acide acier acquis acte action adage adepte adieu "
  \o "admettre admis adorer adresser aduler affaire affirmer afin agacer agent agir agiter agonie "
  \o "agrafe agrume aider aigle aigre aile ailleurs aimant aimer ainsi aise ajouter alarme album "
  \o "alcool alerte algue alibi aller allumer alors amande amener amie amorcer amour ample amuser "
  \o "ananas ancien anglais angoisse animal anneau annoncer apercevoir apparence appel apporter "
  \o "apprendre appuyer arbre arcade arceau arche ardeur argent argile aride arme armure arracher "
  \o "arriver article asile aspect assaut assez assister assurer astre astuce atlas atroce "
  \o "attacher attente attirer aube aucun audace auparavant auquel aurore aussi autant auteur "
  \o "autoroute autre aval avant avec avenir averse aveu avide avion avis avoir avouer avril "
  \o "azote azur badge bagage bague bain baisser "
French_2 ==
  "balai balcon balise balle bambou banane banc bandage banjo banlieue bannir banque baobab "
  \o "barbe barque barrer bassine bataille bateau battre baver bavoir bazar beau beige berger "
  \o "besoin beurre biais biceps bidule bien bijou bilan billet blanc blason bleu bloc blond "
  \o "bocal boire boiserie boiter bonbon bondir bonheur bordure borgne borner bosse bouche bouder "
  \o "bouger boule bourse bout boxe brader braise branche braquer bras brave brebis brevet brider "
  \o "briller brin brique briser broche broder bronze brosser brouter bruit brute budget buffet "
  \o "bulle bureau buriner buste buter butiner cabas cabinet cabri cacao cacher cadeau cadre cage "
  \o "caisse caler calme camarade camion campagne canal canif capable capot carat caresser carie "
  \o "carpe cartel casier casque casserole cause cavale cave ceci cela celui cendre cent "
  \o "cependant cercle cerise cerner certes cerveau cesser chacun chair chaleur chamois chanson "
  \o "chaque charge chasse chat "
French_3 ==
  "chaud chef chemin cheveu chez chicane chien chiffre chiner chiot chlore choc choix chose "
  \o "chou chute cibler cidre ciel cigale cinq cintre cirage cirque ciseau citation citer citron "
  \o "civet clairon clan classe clavier clef climat cloche cloner clore clos clou club cobra "
  \o "cocon coiffer coin colline colon combat comme compte conclure conduire confier connu "
  \o "conseil contre convenir copier cordial cornet corps cosmos coton couche coude couler "
  \o "coupure cour couteau couvrir crabe crainte crampe cran creuser crever crier crime crin "
  \o "crise crochet croix cruel cuisine cuite culot culte cumul cure curieux cuve dame danger "
  \o "dans davantage debout dedans dehors delta demain demeurer demi dense dent depuis dernier "
  \o "descendre dessus destin dette deuil deux devant devenir devin devoir dicton dieu difficile "
  \o "digestion digue diluer dimanche dinde diode dire diriger discours disposer distance divan "
  \o "divers docile docteur dodu dogme "
French_4 ==
  "doigt dominer donation donjon donner dopage dorer dormir doseur douane double douche "
  \o "douleur doute doux douzaine draguer drame drap dresser droit duel dune duper durant durcir "
  \o "durer eaux effacer effet effort effrayant elle embrasser emmener emparer empire employer "
  \o "emporter enclos encore endive endormir endroit enduit enfant enfermer enfin enfler enfoncer "
  \o "enfuir engager engin enjeu enlever ennemi ennui ensemble ensuite entamer entendre entier "
  \o "entourer entre envelopper envie envoyer erreur escalier espace espoir esprit essai essor "
  \o "essuyer estimer exact examiner excuse exemple exiger exil exister exode expliquer exposer "
  \o "exprimer extase fable facette facile fade faible faim faire fait falloir famille faner "
  \o "farce farine fatigue faucon faune faute faux faveur favori faxer feinter femme fendre fente "
  \o "ferme festin feuille feutre fiable fibre ficher fier figer figure filet fille filmer fils "
  \o "filtre final finesse finir fiole firme fixe flacon flair "
French_5 ==
  "flamme flan flaque fleur flocon flore flot flou fluide fluor flux focus foin foire foison "
  \o "folie fonction fondre fonte force forer forger forme fort fosse fouet fouine foule four "
  \o "foyer frais franc frapper freiner frimer friser frite froid froncer fruit fugue fuir fuite "
  \o "fumer fureur furieux fuser fusil futile futur gagner gain gala galet galop gamme gant "
  \o "garage garde garer gauche gaufre gaule gaver gazon geler genou genre gens gercer germer "
  \o "geste gibier gicler gilet girafe givre glace glisser globe gloire gluant gober golf gommer "
  \o "gorge gosier goutte grain gramme grand gras grave gredin griffure griller gris gronder gros "
  \o "grotte groupe grue guerrier guetter guider guise habiter hache haie haine halte hamac "
  \o "hanche hangar hanter haras hareng harpe hasard hausse haut havre herbe heure hibou hier "
  \o "histoire hiver hochet homme honneur honte horde horizon hormone houle "
French_6 ==
  "housse hublot huile huit humain humble humide humour hurler idole igloo ignorer illusion "
  \o "image immense immobile imposer impression incapable inconnu index indiquer infime injure "
  \o "inox inspirer instant intention intime inutile inventer inviter iode iris issue ivre jade "
  \o "jadis jamais jambe janvier jardin jauge jaunisse jeter jeton jeudi jeune joie joindre joli "
  \o "joueur journal judo juge juillet juin jument jungle jupe jupon jurer juron jury jusque "
  \o "juste kayak ketchup kilo kiwi koala label lacet lacune laine laisse lait lame lancer lande "
  \o "laque lard largeur larme larve lasso laver lendemain lentement lequel lettre leur lever "
  \o "levure liane libre lien lier lieutenant ligne ligoter liguer limace limer limite lingot "
  \o "lion lire lisser litre livre lobe local logis loin loisir long loque lors lotus louer loup "
  \o "lourd louve loyer lubie lucide lueur luge luire lundi lune lustre lutin lutte luxe "
French_7 ==
  "machine madame magie magnifique magot maigre main mairie maison malade malheur malin manche "
  \o "manger manier manoir manquer marche mardi marge mariage marquer mars masque masse matin "
  \o "mauvais meilleur melon membre menacer mener mensonge mentir menu merci merlu mesure mettre "
  \o "meuble meunier meute miche micro midi miel miette mieux milieu mille mimer mince mineur "
  \o "ministre minute mirage miroir miser mite mixte mobile mode module moins mois moment momie "
  \o "monde monsieur monter moquer moral morceau mordre morose morse mortier morue motif motte "
  \o "moudre moule mourir mousse mouton mouvement moyen muer muette mugir muguet mulot multiple "
  \o "munir muret muse musique muter nacre nager nain naissance narine narrer naseau nasse nation "
  \o "nature naval navet naviguer navrer neige nerf nerveux neuf neutre neuve neveu niche nier "
  \o "niveau noble noce nocif noir nomade nombre nommer nord norme notaire notice notre nouer "
  \o "nougat "
French_8 ==
  "nourrir nous nouveau novice noyade noyer nuage nuance nuire nuit nulle nuque oasis objet "
  \o "obliger obscur observer obtenir obus occasion occuper ocre octet odeur odorat offense "
  \o "officier offrir ogive oiseau olive ombre onctueux onduler ongle onze opter option orageux "
  \o "oral orange orbite ordinaire ordre oreille organe orgie orgueil orient origan orner orteil "
  \o "ortie oser osselet otage otarie ouate oublier ouest ours outil outre ouvert ouvrir ovale "
  \o "ozone pacte page paille pain paire paix palace palissade palmier palpiter panda panneau "
  \o "papa papier paquet parc pardi parfois parler parmi parole partir parvenir passer pastel "
  \o "patin patron paume pause pauvre paver pavot payer pays peau peigne peinture pelage pelote "
  \o "pencher pendre penser pente percer perdu perle permettre personne perte peser pesticide "
  \o "petit peuple peur phase photo phrase piano pied pierre pieu pile pilier pilote pilule "
  \o "piment pincer pinson pinte "
French_9 ==
  "pion piquer pirate pire piste piton pitre pivot pizza placer plage plaire plan plaque plat "
  \o "plein pleurer pliage plier plonger plot pluie plume plus pneu poche podium poids poil point "
  \o "poire poison poitrine poivre police pollen pomme pompier poncer pondre pont portion poser "
  \o "position possible poste potage potin pouce poudre poulet poumon poupe pour pousser poutre "
  \o "pouvoir prairie premier prendre presque preuve prier primeur prince prison priver prix "
  \o "prochain produire profond proie projet promener prononcer propre prose prouver prune public "
  \o "puce pudeur puiser pull pulpe puma punir purge putois quand quartier quasi quatre quel "
  \o "question queue quiche quille quinze quitter quoi rabais raboter race racheter racine racler "
  \o "raconter radar radio rafale rage ragot raideur raie rail raison ramasser ramener rampe "
  \o "rance rang rapace rapide rapport rarement rasage raser rasoir rassurer rater ratio rature "
  \o "ravage ravir rayer "
French_10 ==
  "rayon rebond recevoir recherche record reculer redevenir refuser regard regretter rein "
  \o "rejeter rejoindre relation relever religion remarquer remettre remise remonter remplir "
  \o "remuer rencontre rendre renier renoncer rentrer renverser repas repli reposer reproche "
  \o "requin respect ressembler reste retard retenir retirer retour retrouver revenir revoir "
  \o "revue rhume ricaner riche rideau ridicule rien rigide rincer rire risquer rituel rivage "
  \o "rive robe robot robuste rocade roche rodeur rogner roman rompre ronce rondeur ronger roque "
  \o "rose rosir rotation rotule roue rouge rouler route ruban rubis ruche rude ruelle ruer rugby "
  \o "rugir ruine rumeur rural ruse rustre sable sabot sabre sacre sage saint saisir salade "
  \o "salive salle salon salto salut salve samba sandale sanguin sapin sarcasme satisfaire sauce "
  \o "sauf sauge saule sauna sauter sauver savoir science scoop score second secret secte "
  \o "seigneur sein seize selle selon semaine sembler semer semis sensuel sentir "
French_11 ==
  "sept serpe serrer sertir service seuil seulement short sien sigle signal silence silo "
  \o "simple singe sinon sinus sioux sirop site situation skier snob sobre social socle sodium "
  \o "soigner soir soixante soja solaire soldat soleil solide solo solvant sombre somme somnoler "
  \o "sondage songeur sonner sorte sosie sottise souci soudain souffrir souhaiter soulever "
  \o "soumettre soupe sourd soustraire soutenir souvent soyeux spectacle sport stade stagiaire "
  \o "stand star statue stock stop store style suave subir sucre suer suffire suie suite suivre "
  \o "sujet sulfite supposer surf surprendre surtout surveiller tabac table tabou tache tacler "
  \o "tacot tact taie taille taire talon talus tandis tango tanin tant taper tapis tard tarif "
  \o "tarot tarte tasse taureau taux taverne taxer taxi tellement temple tendre tenir tenter tenu "
  \o "terme ternir terre test texte thym tibia tiers tige tipi tique tirer tissu titre toast toge "
  \o "toile toiser "
French_12 ==
  "toiture tomber tome tonne tonte toque torse tortue totem toucher toujours tour tousser tout "
  \o "toux trace train trame tranquille travail trembler trente tribu trier trio tripe triste "
  \o "troc trois tromper tronc trop trotter trouer truc truite tuba tuer tuile turbo tutu tuyau "
  \o "type union unique unir unisson untel urne usage user usiner usure utile vache vague vaincre "
  \o "valeur valoir valser valve vampire vaseux vaste veau veille veine velours velu vendre venir "
  \o "vent venue verbe verdict version vertige verve veste veto vexer vice victime vide vieil "
  \o "vieux vigie vigne ville vingt violent virer virus visage viser visite visuel vitamine "
  \o "vitrine vivant vivre vocal vodka vogue voici voile voir voisin voiture volaille volcan "
  \o "voler volt votant votre vouer vouloir vous voyage voyou vrac vrai yacht yeti yeux yoga "
  \o "zeste zinc zone zoom "

Spanish_1 ==
  "1baco abdomen abeja abierto abogado abono aborto abrazo abrir abuelo abuso acabar academia "
  \o "acceso acci4n aceite acelga acento aceptar 1cido aclarar acn2 acoger acoso activo acto "
  \o "actriz actuar acudir acuerdo acusar adicto admitir adoptar adorno aduana adulto a2reo "
  \o "afectar afici4n afinar afirmar 1gil agitar agon3a agosto agotar agregar agrio agua agudo "
  \o "1guila aguja ahogo ahorro aire aislar ajedrez ajeno ajuste alacr1n alambre alarma alba "
  \o "1lbum alcalde aldea alegre alejar alerta aleta alfiler alga algod4n aliado aliento alivio "
  \o "alma almeja alm3bar altar alteza altivo alto altura alumno alzar amable amante amapola "
  \o "amargo amasar 1mbar 1mbito ameno amigo amistad amor amparo amplio ancho anciano ancla andar "
  \o "and2n anemia 1ngulo anillo 1nimo an3s anotar antena antiguo antojo anual anular anuncio "
  \o "a6adir a6ejo a6o apagar aparato apetito apio aplicar apodo aporte apoyo aprender aprobar "
  \o "apuesta apuro arado ara6a arar 1rbitro "
Spanish_2 ==
  "1rbol arbusto archivo arco arder ardilla arduo 1rea 1rido aries armon3a arn2s aroma arpa "
  \o "arp4n arreglo arroz arruga arte artista asa asado asalto ascenso asegurar aseo asesor "
  \o "asiento asilo asistir asno asombro 1spero astilla astro astuto asumir asunto atajo ataque "
  \o "atar atento ateo 1tico atleta 1tomo atraer atroz at5n audaz audio auge aula aumento ausente "
  \o "autor aval avance avaro ave avellana avena avestruz avi4n aviso ayer ayuda ayuno azafr1n "
  \o "azar azote az5car azufre azul baba babor bache bah3a baile bajar balanza balc4n balde bamb5 "
  \o "banco banda ba6o barba barco barniz barro b1scula bast4n basura batalla bater3a batir "
  \o "batuta ba5l bazar beb2 bebida bello besar beso bestia bicho bien bingo blanco bloque blusa "
  \o "boa bobina bobo boca bocina boda bodega boina bola bolero bolsa bomba bondad bonito bono "
  \o "bons1i borde borrar bosque bote bot3n b4veda bozal bravo "
Spanish_3 ==
  "brazo brecha breve brillo brinco brisa broca broma bronce brote bruja brusco bruto buceo "
  \o "bucle bueno buey bufanda buf4n b5ho buitre bulto burbuja burla burro buscar butaca buz4n "
  \o "caballo cabeza cabina cabra cacao cad1ver cadena caer caf2 ca3da caim1n caja caj4n cal "
  \o "calamar calcio caldo calidad calle calma calor calvo cama cambio camello camino campo "
  \o "c1ncer candil canela canguro canica canto ca6a ca64n caoba caos capaz capit1n capote captar "
  \o "capucha cara carb4n c1rcel careta carga cari6o carne carpeta carro carta casa casco casero "
  \o "caspa castor catorce catre caudal causa cazo cebolla ceder cedro celda c2lebre celoso "
  \o "c2lula cemento ceniza centro cerca cerdo cereza cero cerrar certeza c2sped cetro chacal "
  \o "chaleco champ5 chancla chapa charla chico chiste chivo choque choza chuleta chupar cicl4n "
  \o "ciego cielo cien cierto cifra cigarro cima cinco cine cinta cipr2s circo ciruela cisne "
Spanish_4 ==
  "cita ciudad clamor clan claro clase clave cliente clima cl3nica cobre cocci4n cochino "
  \o "cocina coco c4digo codo cofre coger cohete coj3n cojo cola colcha colegio colgar colina "
  \o "collar colmo columna combate comer comida c4modo compra conde conejo conga conocer consejo "
  \o "contar copa copia coraz4n corbata corcho cord4n corona correr coser cosmos costa cr1neo "
  \o "cr1ter crear crecer cre3do crema cr3a crimen cripta crisis cromo cr4nica croqueta crudo "
  \o "cruz cuadro cuarto cuatro cubo cubrir cuchara cuello cuento cuerda cuesta cueva cuidar "
  \o "culebra culpa culto cumbre cumplir cuna cuneta cuota cup4n c5pula curar curioso curso curva "
  \o "cutis dama danza dar dardo d1til deber d2bil d2cada decir dedo defensa definir dejar delf3n "
  \o "delgado delito demora denso dental deporte derecho derrota desayuno deseo desfile desnudo "
  \o "destino desv3o detalle detener deuda d3a diablo diadema diamante diana diario dibujo dictar "
  \o "diente dieta diez "
Spanish_5 ==
  "dif3cil digno dilema diluir dinero directo dirigir disco dise6o disfraz diva divino doble "
  \o "doce dolor domingo don donar dorado dormir dorso dos dosis drag4n droga ducha duda duelo "
  \o "due6o dulce d5o duque durar dureza duro 2bano ebrio echar eco ecuador edad edici4n edificio "
  \o "editor educar efecto eficaz eje ejemplo elefante elegir elemento elevar elipse 2lite elixir "
  \o "elogio eludir embudo emitir emoci4n empate empe6o empleo empresa enano encargo enchufe "
  \o "enc3a enemigo enero enfado enfermo enga6o enigma enlace enorme enredo ensayo ense6ar entero "
  \o "entrar envase env3o 2poca equipo erizo escala escena escolar escribir escudo esencia esfera "
  \o "esfuerzo espada espejo esp3a esposa espuma esqu3 estar este estilo estufa etapa eterno "
  \o "2tica etnia evadir evaluar evento evitar exacto examen exceso excusa exento exigir exilio "
  \o "existir 2xito experto explicar exponer extremo f1brica f1bula fachada f1cil factor faena "
  \o "faja falda fallo falso "
Spanish_6 ==
  "faltar fama familia famoso fara4n farmacia farol farsa fase fatiga fauna favor fax febrero "
  \o "fecha feliz feo feria feroz f2rtil fervor fest3n fiable fianza fiar fibra ficci4n ficha "
  \o "fideo fiebre fiel fiera fiesta figura fijar fijo fila filete filial filtro fin finca fingir "
  \o "finito firma flaco flauta flecha flor flota fluir flujo fl5or fobia foca fogata fog4n folio "
  \o "folleto fondo forma forro fortuna forzar fosa foto fracaso fr1gil franja frase fraude fre3r "
  \o "freno fresa fr3o frito fruta fuego fuente fuerza fuga fumar funci4n funda furg4n furia "
  \o "fusil f5tbol futuro gacela gafas gaita gajo gala galer3a gallo gamba ganar gancho ganga "
  \o "ganso garaje garza gasolina gastar gato gavil1n gemelo gemir gen g2nero genio gente geranio "
  \o "gerente germen gesto gigante gimnasio girar giro glaciar globo gloria gol golfo goloso "
  \o "golpe goma gordo gorila gorra gota goteo gozar grada "
Spanish_7 ==
  "gr1fico grano grasa gratis grave grieta grillo gripe gris grito grosor gr5a grueso grumo "
  \o "grupo guante guapo guardia guerra gu3a gui6o guion guiso guitarra gusano gustar haber h1bil "
  \o "hablar hacer hacha hada hallar hamaca harina haz haza6a hebilla hebra hecho helado helio "
  \o "hembra herir hermano h2roe hervir hielo hierro h3gado higiene hijo himno historia hocico "
  \o "hogar hoguera hoja hombre hongo honor honra hora hormiga horno hostil hoyo hueco huelga "
  \o "huerta hueso huevo huida huir humano h5medo humilde humo hundir hurac1n hurto icono ideal "
  \o "idioma 3dolo iglesia igl5 igual ilegal ilusi4n imagen im1n imitar impar imperio imponer "
  \o "impulso incapaz 3ndice inerte infiel informe ingenio inicio inmenso inmune innato insecto "
  \o "instante inter2s 3ntimo intuir in5til invierno ira iris iron3a isla islote jabal3 jab4n "
  \o "jam4n jarabe jard3n jarra jaula jazm3n jefe jeringa jinete jornada joroba joven joya juerga "
  \o "jueves "
Spanish_8 ==
  "juez jugador jugo juguete juicio junco jungla junio juntar j5piter jurar justo juvenil "
  \o "juzgar kilo koala labio lacio lacra lado ladr4n lagarto l1grima laguna laico lamer l1mina "
  \o "l1mpara lana lancha langosta lanza l1piz largo larva l1stima lata l1tex latir laurel lavar "
  \o "lazo leal lecci4n leche lector leer legi4n legumbre lejano lengua lento le6a le4n leopardo "
  \o "lesi4n letal letra leve leyenda libertad libro licor l3der lidiar lienzo liga ligero lima "
  \o "l3mite lim4n limpio lince lindo l3nea lingote lino linterna l3quido liso lista litera litio "
  \o "litro llaga llama llanto llave llegar llenar llevar llorar llover lluvia lobo loci4n loco "
  \o "locura l4gica logro lombriz lomo lonja lote lucha lucir lugar lujo luna lunes lupa lustro "
  \o "luto luz maceta macho madera madre maduro maestro mafia magia mago ma3z maldad maleta malla "
  \o "malo mam1 mambo mamut manco mando manejar manga maniqu3 "
Spanish_9 ==
  "manjar mano manso manta ma6ana mapa m1quina mar marco marea marfil margen marido m1rmol "
  \o "marr4n martes marzo masa m1scara masivo matar materia matiz matriz m1ximo mayor mazorca "
  \o "mecha medalla medio m2dula mejilla mejor melena mel4n memoria menor mensaje mente men5 "
  \o "mercado merengue m2rito mes mes4n meta meter m2todo metro mezcla miedo miel miembro miga "
  \o "mil milagro militar mill4n mimo mina minero m3nimo minuto miope mirar misa miseria misil "
  \o "mismo mitad mito mochila moci4n moda modelo moho mojar molde moler molino momento momia "
  \o "monarca moneda monja monto mo6o morada morder moreno morir morro morsa mortal mosca mostrar "
  \o "motivo mover m4vil mozo mucho mudar mueble muela muerte muestra mugre mujer mula muleta "
  \o "multa mundo mu6eca mural muro m5sculo museo musgo m5sica muslo n1car naci4n nadar naipe "
  \o "naranja nariz narrar nasal natal nativo natural n1usea naval nave navidad necio "
Spanish_10 ==
  "n2ctar negar negocio negro ne4n nervio neto neutro nevar nevera nicho nido niebla nieto "
  \o "ni6ez ni6o n3tido nivel nobleza noche n4mina noria norma norte nota noticia novato novela "
  \o "novio nube nuca n5cleo nudillo nudo nuera nueve nuez nulo n5mero nutria oasis obeso obispo "
  \o "objeto obra obrero observar obtener obvio oca ocaso oc2ano ochenta ocho ocio ocre octavo "
  \o "octubre oculto ocupar ocurrir odiar odio odisea oeste ofensa oferta oficio ofrecer ogro "
  \o "o3do o3r ojo ola oleada olfato olivo olla olmo olor olvido ombligo onda onza opaco opci4n "
  \o "4pera opinar oponer optar 4ptica opuesto oraci4n orador oral 4rbita orca orden oreja 4rgano "
  \o "org3a orgullo oriente origen orilla oro orquesta oruga osad3a oscuro osezno oso ostra oto6o "
  \o "otro oveja 4vulo 4xido ox3geno oyente ozono pacto padre paella p1gina pago pa3s p1jaro "
  \o "palabra palco paleta p1lido palma paloma palpar pan "
Spanish_11 ==
  "panal p1nico pantera pa6uelo pap1 papel papilla paquete parar parcela pared parir paro "
  \o "p1rpado parque p1rrafo parte pasar paseo pasi4n paso pasta pata patio patria pausa pauta "
  \o "pavo payaso peat4n pecado pecera pecho pedal pedir pegar peine pelar pelda6o pelea peligro "
  \o "pellejo pelo peluca pena pensar pe64n pe4n peor pepino peque6o pera percha perder pereza "
  \o "perfil perico perla permiso perro persona pesa pesca p2simo pesta6a p2talo petr4leo pez "
  \o "pezu6a picar pich4n pie piedra pierna pieza pijama pilar piloto pimienta pino pintor pinza "
  \o "pi6a piojo pipa pirata pisar piscina piso pista pit4n pizca placa plan plata playa plaza "
  \o "pleito pleno plomo pluma plural pobre poco poder podio poema poes3a poeta polen polic3a "
  \o "pollo polvo pomada pomelo pomo pompa poner porci4n portal posada poseer posible poste "
  \o "potencia potro pozo prado precoz pregunta premio prensa preso previo primo pr3ncipe "
Spanish_12 ==
  "prisi4n privar proa probar proceso producto proeza profesor programa prole promesa pronto "
  \o "propio pr4ximo prueba p5blico puchero pudor pueblo puerta puesto pulga pulir pulm4n pulpo "
  \o "pulso puma punto pu6al pu6o pupa pupila pur2 quedar queja quemar querer queso quieto "
  \o "qu3mica quince quitar r1bano rabia rabo raci4n radical ra3z rama rampa rancho rango rapaz "
  \o "r1pido rapto rasgo raspa rato rayo raza raz4n reacci4n realidad reba6o rebote recaer receta "
  \o "rechazo recoger recreo recto recurso red redondo reducir reflejo reforma refr1n refugio "
  \o "regalo regir regla regreso reh2n reino re3r reja relato relevo relieve relleno reloj remar "
  \o "remedio remo rencor rendir renta reparto repetir reposo reptil res rescate resina respeto "
  \o "resto resumen retiro retorno retrato reunir rev2s revista rey rezar rico riego rienda "
  \o "riesgo rifa r3gido rigor rinc4n ri64n r3o riqueza risa ritmo rito "

German_1 ==
  "abakus abart abbilden abbruch abdrift abendrot abfahrt abfeuern abflug abfragen abglanz "
  \o "abh7rten abheben abhilfe abitur abkehr ablauf ablecken abl8sung abnehmer abnutzen abonnent "
  \o "abrasion abrede abr9sten absicht absprung abstand absuchen abteil abundanz abwarten abwurf "
  \o "abzug achse achtung acker aderlass adler admiral adresse affe affront afrika aggregat "
  \o "agilit7t 7hneln ahnung ahorn akazie akkord akrobat aktfoto aktivist albatros alchimie "
  \o "alemanne alibi alkohol allee all9re almosen almweide aloe alpaka alpental alphabet alpinist "
  \o "alraune altbier alter altfl8te altruist alublech aludose amateur amazonas ameise amnesie "
  \o "amok ampel amphibie ampulle amsel amulett anakonda analogie ananas anarchie anatomie anbau "
  \o "anbeginn anbieten anblick 7ndern andocken andrang anecken anflug anfrage anf9hrer angebot "
  \o "angler anhalter anh8he animator anis anker ankleben ankunft anlage anlocken anmut annahme "
  \o "anomalie anonymus anorak anpeilen anrecht anruf ansage anschein ansicht ansporn anteil "
  \o "antlitz antrag antwort anwohner aorta apfel appetit applaus aquarium arbeit arche "
German_2 ==
  "argument arktis armband aroma asche askese asphalt asteroid 7sthetik astronom atelier "
  \o "athlet atlantik atmung audienz aufatmen auffahrt aufholen aufregen aufsatz auftritt aufwand "
  \o "augapfel auktion ausbruch ausflug ausgabe aushilfe ausland ausnahme aussage autobahn "
  \o "avocado axthieb bach backen badesee bahnhof balance balkon ballett balsam banane bandage "
  \o "bankett barbar barde barett bargeld barkasse barriere bart bass bastler batterie bauch "
  \o "bauer bauholz baujahr baum baustahl bauteil bauweise bazar beachten beatmung beben becher "
  \o "becken bedanken beeilen beenden beere befinden befreier begabung begierde begr90en beiboot "
  \o "beichte beifall beigabe beil beispiel beitrag beizen bekommen beladen beleg bellen belohnen "
  \o "bemalung bengel benutzer benzin beraten bereich bergluft bericht bescheid besitz besorgen "
  \o "bestand besuch betanken beten bet8ren bett beule beute bewegung bewirken bewohner bezahlen "
  \o "bezug biegen biene bierzelt bieten bikini bildung billard binden biobauer biologe bionik "
  \o "biotop birke bison bitte biwak bizeps blasen blatt blauwal blende "
German_3 ==
  "blick blitz blockade bl8delei blondine blues blume blut bodensee bogen boje bollwerk bonbon "
  \o "bonus boot bordarzt b8rse b8schung boudoir boxkampf boykott brahms brandung brauerei "
  \o "brecher breitaxt bremse brennen brett brief brigade brillanz bringen brodeln brosche "
  \o "br8tchen br9cke brunnen br9ste brutofen buch b9ffel bugwelle b9hne buletten bullauge "
  \o "bumerang bummeln buntglas b9rde burgherr bursche busen buslinie bussard butangas butter "
  \o "cabrio campen captain cartoon cello chalet charisma chefarzt chiffon chipsatz chirurg chor "
  \o "chronik chuzpe clubhaus cockpit codewort cognac coladose computer coupon cousin cracking "
  \o "crash curry dach dackel daddeln daliegen dame dammbau d7mon dampflok dank darm datei "
  \o "datsche datteln datum dauer daunen deckel decoder defekt degen dehnung deiche dekade dekor "
  \o "delfin demut denken deponie design desktop dessert detail detektiv dezibel diadem diagnose "
  \o "dialekt diamant dichter dickicht diesel diktat diplom direktor dirne diskurs distanz docht "
  \o "dohle dolch dom7ne donner dorade dorf "
German_4 ==
  "d8rrobst dorsch dossier dozent drachen draht drama drang drehbuch dreieck dressur drittel "
  \o "drossel druck duell duft d9ne d9nung d9rfen duschbad d9senjet dynamik ebbe echolot echse "
  \o "eckball edding edelwei0 eden edition efeu effekte egoismus ehre eiablage eiche eidechse "
  \o "eidotter eierkopf eigelb eiland eilbote eimer einatmen einband eindruck einfall eingang "
  \o "einkauf einladen ein8de einrad eintopf einwurf einzug eisb7r eisen eish8hle eismeer eiwei0 "
  \o "ekstase elan elch elefant eleganz element elfe elite elixier ellbogen eloquenz emigrant "
  \o "emission emotion empathie empfang endzeit energie engpass enkel enklave ente entheben "
  \o "entit7t entladen entwurf episode epoche erachten erbauer erbl9hen erdbeere erde erdgas "
  \o "erdkunde erdnuss erd8l erdteil ereignis eremit erfahren erfolg erfreuen erf9llen ergebnis "
  \o "erhitzen erkalten erkennen erleben erl8sung ern7hren erneuern ernte eroberer er8ffnen "
  \o "erosion erotik erpel erraten erreger err8ten ersatz erstflug ertrag eruption erwarten "
  \o "erwidern erzbau erzeuger erziehen esel eskimo eskorte espe espresso essen "
German_5 ==
  "etage etappe etat ethik etikett et9de eule euphorie europa everest examen exil exodus "
  \o "extrakt fabel fabrik fachmann fackel faden fagott fahne faible fairness fakt fakult7t falke "
  \o "fallobst f7lscher faltboot familie fanclub fanfare fangarm fantasie farbe farmhaus farn "
  \o "fasan faser fassung fasten faulheit fauna faust favorit faxger7t fazit fechten federboa "
  \o "fehler feier feige feilen feinripp feldbett felge fellpony felswand ferien ferkel fernweh "
  \o "ferse fest fettnapf feuer fiasko fichte fiktion film filter filz finanzen findling finger "
  \o "fink finnwal fisch fitness fixpunkt fixstern fjord flachbau flagge flamenco flanke flasche "
  \o "flaute fleck flegel flehen fleisch fliegen flinte flirt flocke floh floskel flo0 fl8te "
  \o "flugzeug flunder flusstal flutung fockmast fohlen f8hnlage fokus folgen foliant folklore "
  \o "font7ne f8rde forelle format forscher fortgang forum fotograf frachter fragment fraktion "
  \o "fr7sen frauenpo freak fregatte freiheit freude frieden frohsinn frosch frucht fr9hjahr "
  \o "fuchs f9gung f9hlen f9ller "
German_6 ==
  "fundb9ro funkboje funzel furnier f9rsorge fusel fu0bad futteral gabelung gackern gage "
  \o "g7hnen galaxie galeere galopp gameboy gamsbart gandhi gang garage gardine gark9che garten "
  \o "gasthaus gattung gaukeln gazelle geb7ck gebirge gebr7u geburt gedanke gedeck gedicht gefahr "
  \o "gefieder gefl9gel gef9hl gegend gehirn geh8ft gehweg geige geist gelage geld gelenk gel9bde "
  \o "gem7lde gemeinde gem9se genesen genuss gep7ck geranie gericht germane geruch gesang "
  \o "geschenk gesetz gesindel ges8ff gespan gestade gesuch getier getr7nk get9mmel gewand geweih "
  \o "gewitter gew8lbe geysir giftzahn gipfel giraffe gitarre gl7nzen glasauge glatze gleis "
  \o "globus gl9ck gl9hen glutofen goldzahn gondel g8nnen gottheit graben grafik grashalm "
  \o "graugans greifen grenze grillen groschen grotte grube gr9nalge gruppe gruseln gulasch "
  \o "gummib7r gurgel g9rtel g9terzug haarband habicht hacken hadern hafen hagel h7hnchen "
  \o "haifisch haken halbaffe halsader halten halunke handbuch hanf harfe harnisch h7rten harz "
  \o "hasenohr haube hauchen haupt haut havarie hebamme hecheln heck "
German_7 ==
  "hedonist heiler heimat heizung hektik held helfen helium hemd hemmen hengst herd hering "
  \o "herkunft hermelin herrchen herzdame heulboje hexe hilfe himbeere himmel hingabe hinh8ren "
  \o "hinweis hirsch hirte hitzkopf hobel hochform hocker hoffen hofhund hofnarr h8henzug "
  \o "hohlraum h8lle holzboot honig honorar horchen h8rprobe h8schen hotel hubraum hufeisen h9gel "
  \o "huldigen h9lle humbug hummer humor hund hunger hupe h9rde hurrikan hydrant hypnose ibis "
  \o "idee idiot igel illusion imitat impfen import inferno ingwer inhalte inland insekt ironie "
  \o "irrfahrt irrtum isolator istwert jacke jade jagdhund j7ger jaguar jahr j7hzorn jazzfest "
  \o "jetpilot jobben jochbein jodeln jodsalz jolle journal jubel junge junimond jupiter jutesack "
  \o "juwel kabarett kabine kabuff k7fer kaffee kahlkopf kaimauer kaj9te kaktus kaliber kaltluft "
  \o "kamel k7mmen kampagne kanal k7nguru kanister kanone kante kanu kapern kapit7n kapuze "
  \o "karneval karotte k7sebrot kasper kastanie katalog kathode katze kaufen kaugummi kauz kehle "
  \o "keilerei keksdose kellner "
German_8 ==
  "keramik kerze kessel kette keuchen kichern kielboot kindheit kinnbart kinosaal kiosk kissen "
  \o "klammer klang klapprad klartext kleben klee kleinod klima klingel klippe klischee kloster "
  \o "klugheit kl9ngel kneten knie kn8chel kn9pfen kobold kochbuch kohlrabi koje kokos8l kolibri "
  \o "kolumne komb9se komiker kommen konto konzept kopfkino kordhose korken korsett kosename "
  \o "krabbe krach kraft kr7he kralle krapfen krater kraulen kreuz krokodil kr8te kugel kuhhirt "
  \o "k9hnheit k9nstler kurort kurve kurzfilm kuscheln k9ssen kutter labor lachen lackaffe "
  \o "ladeluke lagune laib lakritze lammfell land langmut lappalie last laterne latzhose laubs7ge "
  \o "laufen laune lausbub lavasee leben leder leerlauf lehm lehrer leihen lekt9re lenker lerche "
  \o "leseecke leuchter lexikon libelle libido licht liebe liefern liftboy limonade lineal "
  \o "linoleum list liveband lobrede locken l8ffel logbuch logik lohn loipe lokal lorbeer l8sung "
  \o "l8ten lottofee l8we luchs luder luftpost luke l9mmel lunge lutschen luxus macht magazin "
  \o "magier magnet m7hen "
German_9 ==
  "mahlzeit mahnmal maibaum maisbrei makel malen mammut manik9re mantel marathon marder marine "
  \o "marke marmor m7rzluft maske ma0anzug ma0krug mastkorb material matratze mauerbau maulkorb "
  \o "m7uschen m7zen medium meinung melden melodie mensch merkmal messe metall meteor methode "
  \o "metzger mieze milchkuh mimose minirock minute mischen missetat mitgehen mittag mixtape "
  \o "m8bel modul m8gen m8hre molch moment monat mondflug monitor monokini monster monument "
  \o "moorhuhn moos m8pse moral m8rtel motiv motorrad m8we m9he mulatte m9ller mumie mund m9nze "
  \o "muschel muster mythos nabel nachtzug nackedei nagel n7he n7hnadel namen narbe narwal "
  \o "nasenb7r natur nebel necken neffe neigung nektar nenner neptun nerz nessel nestbau netz "
  \o "neubau neuerung neugier nicken niere nilpferd nisten nocke nomade nordmeer notdurft "
  \o "notstand notwehr nudismus nuss nutzhanf oase obdach oberarzt objekt oboe obsthain ochse "
  \o "odyssee ofenholz 8ffnen ohnmacht ohrfeige ohrwurm 8kologie oktave 8lberg olive 8lkrise "
  \o "omelett onkel oper optiker orange "
German_10 ==
  "orchidee ordnen orgasmus orkan ortskern ortung ostasien ozean paarlauf packeis paddeln "
  \o "paket palast pandab7r panik panorama panther papagei papier paprika paradies parka parodie "
  \o "partner passant patent patzer pause pavian pedal pegel peilen perle person pfad pfau pferd "
  \o "pfleger physik pier pilotwal pinzette piste plakat plankton platin plombe pl9ndern pobacke "
  \o "pokal polieren popmusik portr7t posaune postamt pottwal pracht pranke preis primat prinzip "
  \o "protest proviant pr9fung pubert7t pudding pullover pulsader punkt pute putsch puzzle python "
  \o "quaken qualle quark quellsee querkopf quitte quote rabauke rache radclub radhose radio "
  \o "radtour rahmen rampe randlage ranzen raps8l raserei rasten rasur r7tsel raubtier raumzeit "
  \o "rausch reaktor realit7t rebell rede reetdach regatta regen rehkitz reifen reim reise "
  \o "reizung rekord relevanz rennboot respekt restm9ll retten reue revolte rhetorik rhythmus "
  \o "richtung riegel rindvieh rippchen ritter robbe roboter rockband rohdaten roller roman "
  \o "r8ntgen rose rosskur rost rotahorn "
German_11 ==
  "rotglut rotznase rubrik r9ckweg rufmord ruhe ruine rumpf runde r9stung r9tteln saalt9r "
  \o "saatguts s7bel sachbuch sack saft sagen sahneeis salat salbe salz sammlung samt sandbank "
  \o "sanftmut sardine satire sattel satzbau sauerei saum s7ure schall scheitel schiff schlager "
  \o "schmied schnee scholle schrank schulbus schwan seeadler seefahrt seehund seeufer segeln "
  \o "sehnerv seide seilzug senf sessel seufzer sexgott sichtung signal silber singen sinn sirup "
  \o "sitzbank skandal skikurs skipper skizze smaragd socke sohn sommer songtext sorte spagat "
  \o "spannung spargel specht speise8l spiegel sport sp9len stadtbus stall st7rke stativ staunen "
  \o "stern stiftung stollen str8mung sturm substanz s9dalpen sumpf surfen tabak tafel tagebau "
  \o "takeln taktung talsohle tand tanzb7r tapir tarantel tarnname tasse tatnacht tatsache tatze "
  \o "taube tauchen taufpate taumel teelicht teich teilen tempo tenor terrasse testflug theater "
  \o "thermik ticken tiefflug tierart tigerhai tinte tischler toben toleranz t8lpel tonband topf "
  \o "topmodel torbogen torlinie "
German_12 ==
  "torte tourist tragesel trampeln trapez traum treffen trennung treue trick trimmen tr8del "
  \o "trost trumpf t9fteln turban turm 9bermut ufer uhrwerk umarmen umbau umfeld umgang umsturz "
  \o "unart unfug unimog unruhe unwucht uranerz urlaub urmensch utopie vakuum valuta vandale vase "
  \o "vektor ventil verb verdeck verfall vergaser verhexen verlag vers vesper vieh viereck vinyl "
  \o "virus vitrine vollblut vorbote vorrat vorsicht vulkan wachstum wade wagemut wahlen wahrheit "
  \o "wald walhai wallach walnuss walzer wandeln wanze w7rmen warnruf w7sche wasser weberei "
  \o "wechseln wegegeld wehren weiher weinglas wei0bier weitwurf welle weltall werkbank werwolf "
  \o "wetter wiehern wildgans wind wohl wohnort wolf wollust wortlaut wrack wunder wurfaxt wurst "
  \o "yacht yeti zacke zahl z7hmen zahnfee z7pfchen zaster zaumzeug zebra zeigen zeitlupe "
  \o "zellkern zeltdach zensor zerfall zeug ziege zielfoto zimteis zobel zollhund zombie z8pfe "
  \o "zucht zufahrt zugfahrt zugvogel z9ndung zweck zyklop "

Italian_1 ==
  "abbinare abbonato abisso abitare abominio accadere accesso acciaio accordo accumulo acido "
  \o "acqua acrobata acustico adattare addetto addio addome adeguato aderire adorare adottare "
  \o "adozione adulto aereo aerobica affare affetto affidare affogato affronto africano afrodite "
  \o "agenzia aggancio aggeggio aggiunta agio agire agitare aglio agnello agosto aiutare albero "
  \o "albo alce alchimia alcool alfabeto algebra alimento allarme alleanza allievo alloggio "
  \o "alluce alpi alterare altro aluminio amante amarezza ambiente ambrosia america amico "
  \o "ammalare ammirare amnesia amnistia amore ampliare amputare analisi anamnesi ananas anarchia "
  \o "anatra anca ancorato andare androide aneddoto anello angelo angolino anguilla anidride "
  \o "anima annegare anno annuncio anomalia antenna anticipo aperto apostolo appalto appello "
  \o "appiglio applauso appoggio appurare aprile aquila arabo arachidi aragosta arancia arbitrio "
  \o "archivio arco argento argilla aria ariete arma armonia aroma arrivare arrosto arsenale arte "
  \o "artiglio asfalto asfissia asino asparagi aspirina assalire assegno assolto assurdo asta "
  \o "astratto "
Italian_2 ==
  "atlante atletica atomo atropina attacco attesa attico atto attrarre auguri aula aumento "
  \o "aurora auspicio autista auto autunno avanzare avarizia avere aviatore avido avorio avvenire "
  \o "avviso avvocato azienda azione azzardo azzurro babbuino bacio badante baffi bagaglio "
  \o "bagliore bagno balcone balena ballare balordo balsamo bambola bancomat banda barato barba "
  \o "barista barriera basette basilico bassista bastare battello bavaglio beccare beduino "
  \o "bellezza bene benzina berretto bestia bevitore bianco bibbia biberon bibita bici bidone "
  \o "bilancia biliardo binario binocolo biologia biondina biopsia biossido birbante birra "
  \o "biscotto bisogno bistecca bivio blindare bloccare bocca bollire bombola bonifico borghese "
  \o "borsa bottino botulino braccio bradipo branco bravo bresaola bretelle brevetto briciola "
  \o "brigante brillare brindare brivido broccoli brontolo bruciare brufolo bucare buddista "
  \o "budino bufera buffo bugiardo buio buono burrone bussola bustina buttare cabernet cabina "
  \o "cacao cacciare cactus cadavere caffe calamari calcio caldaia calmare calunnia calvario "
  \o "calzone cambiare "
Italian_3 ==
  "camera camion cammello campana canarino cancello candore cane canguro cannone canoa cantare "
  \o "canzone caos capanna capello capire capo capperi capra capsula caraffa carbone carciofo "
  \o "cardigan carenza caricare carota carrello carta casa cascare caserma cashmere casino "
  \o "cassetta castello catalogo catena catorcio cattivo causa cauzione cavallo caverna caviglia "
  \o "cavo cazzotto celibato cemento cenare centrale ceramica cercare ceretta cerniera certezza "
  \o "cervello cessione cestino cetriolo chiave chiedere chilo chimera chiodo chirurgo chitarra "
  \o "chiudere ciabatta ciao cibo ciccia cicerone ciclone cicogna cielo cifra cigno ciliegia "
  \o "cimitero cinema cinque cintura ciondolo ciotola cipolla cippato circuito cisterna citofono "
  \o "ciuccio civetta civico clausola cliente clima clinica cobra coccole cocktail cocomero "
  \o "codice coesione cogliere cognome colla colomba colpire coltello comando comitato commedia "
  \o "comodino compagna comune concerto condotto conforto congiura coniglio consegna conto "
  \o "convegno coperta copia coprire corazza corda corleone cornice corona corpo corrente corsa "
  \o "cortesia "
Italian_4 ==
  "corvo coso costume cotone cottura cozza crampo cratere cravatta creare credere crema "
  \o "crescere crimine criterio croce crollare cronaca crostata croupier cubetto cucciolo cucina "
  \o "cultura cuoco cuore cupido cupola cura curva cuscino custode danzare data decennio decidere "
  \o "decollo dedicare dedurre definire delegare delfino delitto demone dentista denuncia "
  \o "deposito derivare deserto designer destino detonare dettagli diagnosi dialogo diamante "
  \o "diario diavolo dicembre difesa digerire digitare diluvio dinamica dipinto diploma diramare "
  \o "dire dirigere dirupo discesa disdetta disegno disporre dissenso distacco dito ditta diva "
  \o "divenire dividere divorare docente dolcetto dolore domatore domenica dominare donatore "
  \o "donna dorato dormire dorso dosaggio dottore dovere download dragone dramma dubbio dubitare "
  \o "duetto durata ebbrezza eccesso eccitare eclissi economia edera edificio editore edizione "
  \o "educare effetto egitto egiziano elastico elefante eleggere elemento elenco elezione elmetto "
  \o "elogio embrione emergere emettere eminenza emisfero emozione empatia energia enfasi enigma "
  \o "entrare enzima "
Italian_5 ==
  "epidemia epilogo episodio epoca equivoco erba erede eroe erotico errore eruzione esaltare "
  \o "esame esaudire eseguire esempio esigere esistere esito esperto espresso essere estasi "
  \o "esterno estrarre eterno etica euforico europa evacuare evasione evento evidenza evitare "
  \o "evolvere fabbrica facciata fagiano fagotto falco fame famiglia fanale fango fantasia "
  \o "farfalla farmacia faro fase fastidio faticare fatto favola febbre femmina femore fenomeno "
  \o "fermata feromoni ferrari fessura festa fiaba fiamma fianco fiat fibbia fidare fieno figa "
  \o "figlio figura filetto filmato filosofo filtrare finanza finestra fingere finire finta "
  \o "finzione fiocco fioraio firewall firmare fisico fissare fittizio fiume flacone flagello "
  \o "flirtare flusso focaccia foglio fognario follia fonderia fontana forbici forcella foresta "
  \o "forgiare formare fornace foro fortuna forzare fosforo fotoni fracasso fragola frantumi "
  \o "fratello frazione freccia freddo frenare fresco friggere frittata frivolo frizione fronte "
  \o "frullato frumento frusta frutto fucile fuggire fulmine fumare funzione fuoco furbizia "
Italian_6 ==
  "furgone furia furore fusibile fuso futuro gabbiano galassia gallina gamba gancio garanzia "
  \o "garofano gasolio gatto gazebo gazzetta gelato gemelli generare genitori gennaio geologia "
  \o "germania gestire gettare ghepardo ghiaccio giaccone giaguaro giallo giappone giardino "
  \o "gigante gioco gioiello giorno giovane giraffa giudizio giurare giusto globo gloria glucosio "
  \o "gnocca gocciola godere gomito gomma gonfiare gorilla governo gradire graffiti granchio "
  \o "grappolo grasso grattare gridare grissino grondaia grugnito gruppo guadagno guaio guancia "
  \o "guardare gufo guidare guscio gusto icona idea identico idolo idoneo idrante idrogeno igiene "
  \o "ignoto imbarco immagine immobile imparare impedire impianto importo impresa impulso incanto "
  \o "incendio incidere incontro incrocia incubo indagare indice indotto infanzia inferno "
  \o "infinito infranto ingerire inglese ingoiare ingresso iniziare innesco insalata inserire "
  \o "insicuro insonnia insulto interno introiti invasori inverno invito invocare ipnosi ipocrita "
  \o "ipotesi ironia irrigare iscritto isola ispirare isterico istinto istruire italiano jazz "
  \o "labbra labrador ladro "
Italian_7 ==
  "lago lamento lampone lancetta lanterna lapide larva lasagne lasciare lastra latte laurea "
  \o "lavagna lavorare leccare legare leggere lenzuolo leone lepre letargo lettera levare "
  \o "levitare lezione liberare libidine libro licenza lievito limite lince lingua liquore lire "
  \o "listino litigare litro locale lottare lucciola lucidare luglio luna macchina madama madre "
  \o "maestro maggio magico maglione magnolia mago maialino maionese malattia male malloppo "
  \o "mancare mandorla mangiare manico manopola mansarda mantello manubrio manzo mappa mare "
  \o "margine marinaio marmotta marocco martello marzo maschera matrice maturare mazzetta meandri "
  \o "medaglia medico medusa megafono melone membrana menta mercato meritare merluzzo mese "
  \o "mestiere metafora meteo metodo mettere miele miglio miliardo mimetica minatore minuto "
  \o "miracolo mirtillo missile mistero misura mito mobile moda moderare moglie molecola molle "
  \o "momento moneta mongolia monologo montagna morale morbillo mordere mosaico mosca mostro "
  \o "motivare moto mulino mulo muovere muraglia muscolo museo musica mutande nascere "
Italian_8 ==
  "nastro natale natura nave navigare negare negozio nemico nero nervo nessuno nettare "
  \o "neutroni neve nevicare nicotina nido nipote nocciola noleggio nome nonno norvegia notare "
  \o "notizia nove nucleo nuda nuotare nutrire obbligo occhio occupare oceano odissea odore "
  \o "offerta officina offrire oggetto oggi olfatto olio oliva ombelico ombrello omuncolo ondata "
  \o "onore opera opinione opuscolo opzione orario orbita orchidea ordine orecchio orgasmo "
  \o "orgoglio origine orologio oroscopo orso oscurare ospedale ospite ossigeno ostacolo ostriche "
  \o "ottenere ottimo ottobre ovest pacco pace pacifico padella pagare pagina pagnotta palazzo "
  \o "palestra palpebre pancetta panfilo panino pannello panorama papa paperino paradiso parcella "
  \o "parente parlare parodia parrucca partire passare pasta patata patente patogeno patriota "
  \o "pausa pazienza peccare pecora pedalare pelare pena pendenza penisola pennello pensare "
  \o "pentirsi percorso perdono perfetto perizoma perla permesso persona pesare pesce peso "
  \o "petardo petrolio pezzo piacere pianeta piastra piatto piazza piccolo piede "
Italian_9 ==
  "piegare pietra pigiama pigliare pigrizia pilastro pilota pinguino pioggia piombo pionieri "
  \o "piovra pipa pirata pirolisi piscina pisolino pista pitone piumino pizza plastica platino "
  \o "poesia poiana polaroid polenta polimero pollo polmone polpetta poltrona pomodoro pompa "
  \o "popolo porco porta porzione possesso postino potassio potere poverino pranzo prato prefisso "
  \o "prelievo premio prendere prestare pretesa prezzo primario privacy problema processo "
  \o "prodotto profeta progetto promessa pronto proposta proroga prossimo proteina prova prudenza "
  \o "pubblico pudore pugilato pulire pulsante puntare pupazzo puzzle quaderno qualcuno quarzo "
  \o "quercia quintale rabbia racconto radice raffica ragazza ragione rammento ramo rana randagio "
  \o "rapace rapinare rapporto rasatura ravioli reagire realista reattore reazione recitare "
  \o "recluso record recupero redigere regalare regina regola relatore reliquia remare rendere "
  \o "reparto resina resto rete retorica rettile revocare riaprire ribadire ribelle ricambio "
  \o "ricetta richiamo ricordo ridurre riempire riferire riflesso righello rilancio rilevare "
  \o "rilievo rimanere rimborso rinforzo "
Italian_10 ==
  "rinuncia riparo ripetere riposare ripulire risalita riscatto riserva riso rispetto ritaglio "
  \o "ritmo ritorno ritratto rituale riunione riuscire riva robotica rondine rosa rospo rosso "
  \o "rotonda rotta roulotte rubare rubrica ruffiano rumore ruota ruscello sabbia sacco saggio "
  \o "sale salire salmone salto salutare salvia sangue sanzioni sapere sapienza sarcasmo sardine "
  \o "sartoria sbalzo sbarcare sberla sborsare scadenza scafo scala scambio scappare scarpa "
  \o "scatola scelta scena sceriffo scheggia schiuma sciarpa scienza scimmia sciopero scivolo "
  \o "sclerare scolpire sconto scopa scordare scossa scrivere scrupolo scuderia scultore scuola "
  \o "scusare sdraiare secolo sedativo sedere sedia segare segreto seguire semaforo seme senape "
  \o "seno sentiero separare sepolcro sequenza serata serpente servizio sesso seta settore "
  \o "sfamare sfera sfidare sfiorare sfogare sgabello sicuro siepe sigaro silenzio silicone "
  \o "simbiosi simpatia simulare sinapsi sindrome sinergia sinonimo sintonia sirena siringa "
  \o "sistema sito smalto smentire smontare soccorso socio soffitto software soggetto sogliola "
  \o "sognare "
Italian_11 ==
  "soldi sole sollievo solo sommario sondare sonno sorpresa sorriso sospiro sostegno sovrano "
  \o "spaccare spada spagnolo spalla sparire spavento spazio specchio spedire spegnere spendere "
  \o "speranza spessore spezzare spiaggia spiccare spiegare spiffero spingere sponda sporcare "
  \o "spostare spremuta spugna spumante spuntare squadra squillo staccare stadio stagione "
  \o "stallone stampa stancare starnuto statura stella stendere sterzo stilista stimolo stinco "
  \o "stiva stoffa storia strada stregone striscia studiare stufa stupendo subire successo sudare "
  \o "suono superare supporto surfista sussurro svelto svenire sviluppo svolta svuotare tabacco "
  \o "tabella tabu tacchino tacere taglio talento tangente tappeto tartufo tassello tastiera "
  \o "tavolo tazza teatro tedesco telaio telefono tema temere tempo tendenza tenebre tensione "
  \o "tentare teologia teorema termica terrazzo teschio tesi tesoro tessera testa thriller tifoso "
  \o "tigre timbrare timido tinta tirare tisana titano titolo toccare togliere topolino torcia "
  \o "torrente tovaglia traffico tragitto training tramonto transito trapezio trasloco trattore "
  \o "trazione treccia "
Italian_12 ==
  "tregua treno triciclo tridente trilogia tromba troncare trota trovare trucco tubo tulipano "
  \o "tumulto tunisia tuono turista tuta tutelare tutore ubriaco uccello udienza udito uffa "
  \o "umanoide umore unghia unguento unicorno unione universo uomo uragano uranio urlare uscire "
  \o "utente utilizzo vacanza vacca vaglio vagonata valle valore valutare valvola vampiro "
  \o "vaniglia vanto vapore variante vasca vaselina vassoio vedere vegetale veglia veicolo vela "
  \o "veleno velivolo velluto vendere venerare venire vento veranda verbo verdura vergine "
  \o "verifica vernice vero verruca versare vertebra vescica vespaio vestito vesuvio veterano "
  \o "vetro vetta viadotto viaggio vibrare vicenda vichingo vietare vigilare vigneto villa "
  \o "vincere violino vipera virgola virtuoso visita vita vitello vittima vivavoce vivere viziato "
  \o "voglia volare volpe volto volume vongole voragine vortice votare vulcano vuotare zabaione "
  \o "zaffiro zainetto zampa zanzara zattera zavorra zenzero zero zingaro zittire zoccolo zolfo "
  \o "zombie zucchero "

Portuguese_1 ==
  "abaular abdominal abeto abissinio abjeto ablucao abnegar abotoar abrutalhar absurdo abutre "
  \o "acautelar accessorios acetona achocolatado acirrar acne acovardar acrostico actinomicete "
  \o "acustico adaptavel adeus adivinho adjunto admoestar adnominal adotivo adquirir adriatico "
  \o "adsorcao adutora advogar aerossol afazeres afetuoso afixo afluir afortunar afrouxar aftosa "
  \o "afunilar agentes agito aglutinar aiatola aimore aino aipo airoso ajeitar ajoelhar ajudante "
  \o "ajuste alazao albumina alcunha alegria alexandre alforriar alguns alhures alivio almoxarife "
  \o "alotropico alpiste alquimista alsaciano altura aluviao alvura amazonico ambulatorio "
  \o "ametodico amizades amniotico amovivel amurada anatomico ancorar anexo anfora aniversario "
  \o "anjo anotar ansioso anturio anuviar anverso anzol aonde apaziguar apito aplicavel "
  \o "apoteotico aprimorar aprumo apto apuros aquoso arauto arbusto arduo aresta arfar arguto "
  \o "aritmetico arlequim armisticio aromatizar arpoar arquivo arrumar arsenio arturiano aruaque "
  \o "arvores asbesto ascorbico aspirina asqueroso assustar astuto atazanar ativo atletismo "
  \o "atmosferico atormentar atroz aturdir audivel auferir augusto aula aumento aurora "
Portuguese_2 ==
  "autuar avatar avexar avizinhar avolumar avulso axiomatico azerbaijano azimute azoto azulejo "
  \o "bacteriologista badulaque baforada baixote bajular balzaquiana bambuzal banzo baoba baqueta "
  \o "barulho bastonete batuta bauxita bavaro bazuca bcrepuscular beato beduino begonia "
  \o "behaviorista beisebol belzebu bemol benzido beocio bequer berro besuntar betume bexiga "
  \o "bezerro biatlon biboca bicuspide bidirecional bienio bifurcar bigorna bijuteria bimotor "
  \o "binormal bioxido bipolarizacao biquini birutice bisturi bituca biunivoco bivalve bizarro "
  \o "blasfemo blenorreia blindar bloqueio blusao boazuda bofete bojudo bolso bombordo bonzo "
  \o "botina boquiaberto bostoniano botulismo bourbon bovino boximane bravura brevidade britar "
  \o "broxar bruno bruxuleio bubonico bucolico buda budista bueiro buffer bugre bujao bumerangue "
  \o "burundines busto butique buzios caatinga cabuqui cacunda cafuzo cajueiro camurca canudo "
  \o "caquizeiro carvoeiro casulo catuaba cauterizar cebolinha cedula ceifeiro celulose cerzir "
  \o "cesto cetro ceus cevar chavena cheroqui chita chovido chuvoso ciatico cibernetico cicuta "
  \o "cidreira cientistas cifrar cigarro cilio cimo cinzento cioso "
Portuguese_3 ==
  "cipriota cirurgico cisto citrico ciumento civismo clavicula clero clitoris cluster coaxial "
  \o "cobrir cocota codorniz coexistir cogumelo coito colusao compaixao comutativo contentamento "
  \o "convulsivo coordenativa coquetel correto corvo costureiro cotovia covil cozinheiro cretino "
  \o "cristo crivo crotalo cruzes cubo cucuia cueiro cuidar cujo cultural cunilingua cupula curvo "
  \o "custoso cutucar czarismo dablio dacota dados daguerreotipo daiquiri daltonismo damista "
  \o "dantesco daquilo darwinista dasein dativo deao debutantes decurso deduzir defunto degustar "
  \o "dejeto deltoide demover denunciar deputado deque dervixe desvirtuar deturpar deuteronomio "
  \o "devoto dextrose dezoito diatribe dicotomico didatico dietista difuso digressao diluvio "
  \o "diminuto dinheiro dinossauro dioxido diplomatico dique dirimivel disturbio diurno divulgar "
  \o "dizivel doar dobro docura dodoi doer dogue doloso domo donzela doping dorsal dossie dote "
  \o "doutro doze dravidico dreno driver dropes druso dubnio ducto dueto dulija dundum duodeno "
  \o "duquesa durou duvidoso duzia ebano ebrio eburneo echarpe eclusa ecossistema ectoplasma "
  \o "ecumenismo eczema eden "
Portuguese_4 ==
  "editorial edredom edulcorar efetuar efigie efluvio egiptologo egresso egua einsteiniano "
  \o "eira eivar eixos ejetar elastomero eldorado elixir elmo eloquente elucidativo emaranhar "
  \o "embutir emerito emfa emitir emotivo empuxo emulsao enamorar encurvar enduro enevoar "
  \o "enfurnar enguico enho enigmista enlutar enormidade enpreendimento enquanto enriquecer "
  \o "enrugar entusiastico enunciar envolvimento enxuto enzimatico eolico epiteto epoxi epura "
  \o "equivoco erario erbio ereto erguido erisipela ermo erotizar erros erupcao ervilha esburacar "
  \o "escutar esfuziante esguio esloveno esmurrar esoterismo esperanca espirito espurio "
  \o "essencialmente esturricar esvoacar etario eterno etiquetar etnologo etos etrusco euclidiano "
  \o "euforico eugenico eunuco europio eustaquio eutanasia evasivo eventualidade evitavel evoluir "
  \o "exaustor excursionista exercito exfoliado exito exotico expurgo exsudar extrusora exumar "
  \o "fabuloso facultativo fado fagulha faixas fajuto faltoso famoso fanzine fapesp faquir "
  \o "fartura fastio faturista fausto favorito faxineira fazer fealdade febril fecundo fedorento "
  \o "feerico feixe felicidade felpudo feltro femur fenotipo fervura festivo feto feudo fevereiro "
Portuguese_5 ==
  "fezinha fiasco fibra ficticio fiduciario fiesp fifa figurino fijiano filtro finura fiorde "
  \o "fiquei firula fissurar fitoteca fivela fixo flavio flexor flibusteiro flotilha fluxograma "
  \o "fobos foco fofura foguista foie foliculo fominha fonte forum fosso fotossintese foxtrote "
  \o "fraudulento frevo frivolo frouxo frutose fuba fucsia fugitivo fuinha fujao fulustreco fumo "
  \o "funileiro furunculo fustigar futurologo fuxico fuzue gabriel gado gaelico gafieira gaguejo "
  \o "gaivota gajo galvanoplastico gamo ganso garrucha gastronomo gatuno gaussiano gaviao gaxeta "
  \o "gazeteiro gear geiser geminiano generoso genuino geossinclinal gerundio gestual getulista "
  \o "gibi gigolo gilete ginseng giroscopio glaucio glacial gleba glifo glote glutonia gnostico "
  \o "goela gogo goitaca golpista gomo gonzo gorro gostou goticula gourmet governo gozo graxo "
  \o "grevista grito grotesco gruta guaxinim gude gueto guizo guloso gume guru gustativo grelhado "
  \o "gutural habitue haitiano halterofilista hamburguer hanseniase happening harpista hastear "
  \o "haveres hebreu hectometro hedonista hegira helena helminto hemorroidas henrique "
  \o "heptassilabo "
Portuguese_6 ==
  "hertziano hesitar heterossexual heuristico hexagono hiato hibrido hidrostatico hieroglifo "
  \o "hifenizar higienizar hilario himen hino hippie hirsuto historiografia hitlerista hodometro "
  \o "hoje holograma homus honroso hoquei horto hostilizar hotentote huguenote humilde huno hurra "
  \o "hutu iaia ialorixa iambico iansa iaque iara iatista iberico ibis icar iceberg icosagono "
  \o "idade ideologo idiotice idoso iemenita iene igarape iglu ignorar igreja iguaria iidiche "
  \o "ilativo iletrado ilharga ilimitado ilogismo ilustrissimo imaturo imbuzeiro imerso imitavel "
  \o "imovel imputar imutavel inaveriguavel incutir induzir inextricavel infusao ingua inhame "
  \o "iniquo injusto inning inoxidavel inquisitorial insustentavel intumescimento inutilizavel "
  \o "invulneravel inzoneiro iodo iogurte ioio ionosfera ioruba iota ipsilon irascivel iris "
  \o "irlandes irmaos iroques irrupcao isca isento islandes isotopo isqueiro israelita isso isto "
  \o "iterbio itinerario itrio iuane iugoslavo jabuticabeira jacutinga jade jagunco jainista "
  \o "jaleco jambo jantarada japones jaqueta jarro jasmim jato jaula javel jazz jegue jeitoso "
  \o "jejum jenipapo jeova jequitiba jersei jesus "
Portuguese_7 ==
  "jetom jiboia jihad jilo jingle jipe jocoso joelho joguete joio jojoba jorro jota joule "
  \o "joviano jubiloso judoca jugular juizo jujuba juliano jumento junto jururu justo juta "
  \o "juventude labutar laguna laico lajota lanterninha lapso laquear lastro lauto lavrar "
  \o "laxativo lazer leasing lebre lecionar ledo leguminoso leitura lele lemure lento leonardo "
  \o "leopardo lepton leque leste letreiro leucocito levitico lexicologo lhama lhufas liame "
  \o "licoroso lidocaina liliputiano limusine linotipo lipoproteina liquidos lirismo lisura "
  \o "liturgico livros lixo lobulo locutor lodo logro lojista lombriga lontra loop loquaz lorota "
  \o "losango lotus louvor luar lubrificavel lucros lugubre luis luminoso luneta lustroso luto "
  \o "luvas luxuriante luzeiro maduro maestro mafioso magro maiuscula majoritario malvisto mamute "
  \o "manutencao mapoteca maquinista marzipa masturbar matuto mausoleu mavioso maxixe mazurca "
  \o "meandro mecha medusa mefistofelico megera meirinho melro memorizar menu mequetrefe "
  \o "mertiolate mestria metroviario mexilhao mezanino miau microssegundo midia migratorio mimosa "
  \o "minuto "
Portuguese_8 ==
  "miosotis mirtilo misturar mitzvah miudos mixuruca mnemonico moagem mobilizar modulo moer "
  \o "mofo mogno moita molusco monumento moqueca morubixaba mostruario motriz mouse movivel "
  \o "mozarela muarra muculmano mudo mugir muitos mumunha munir muon muquira murros musselina "
  \o "nacoes nado naftalina nago naipe naja nalgum namoro nanquim napolitano naquilo nascimento "
  \o "nautilo navios nazista nebuloso nectarina nefrologo negus nelore nenufar nepotismo nervura "
  \o "neste netuno neutron nevoeiro newtoniano nexo nhenhenhem nhoque nigeriano niilista ninho "
  \o "niobio niponico niquelar nirvana nisto nitroglicerina nivoso nobreza nocivo noel nogueira "
  \o "noivo nojo nominativo nonuplo noruegues nostalgico noturno nouveau nuanca nublar "
  \o "nucleotideo nudista nulo numismatico nunquinha nupcias nutritivo nuvens oasis obcecar obeso "
  \o "obituario objetos oblongo obnoxio obrigatorio obstruir obtuso obus obvio ocaso occipital "
  \o "oceanografo ocioso oclusivo ocorrer ocre octogono odalisca odisseia odorifico oersted oeste "
  \o "ofertar ofidio oftalmologo ogiva ogum oigale oitavo oitocentos ojeriza olaria oleoso olfato "
  \o "olhos oliveira "
Portuguese_9 ==
  "olmo olor olvidavel ombudsman omeleteira omitir omoplata onanismo ondular oneroso "
  \o "onomatopeico ontologico onus onze opalescente opcional operistico opio oposto oprobrio "
  \o "optometrista opusculo oratorio orbital orcar orfao orixa orla ornitologo orquidea "
  \o "ortorrombico orvalho osculo osmotico ossudo ostrogodo otario otite ouro ousar outubro ouvir "
  \o "ovario overnight oviparo ovni ovoviviparo ovulo oxala oxente oxiuro oxossi ozonizar "
  \o "paciente pactuar padronizar paete pagodeiro paixao pajem paludismo pampas panturrilha "
  \o "papudo paquistanes pastoso patua paulo pauzinhos pavoroso paxa pazes peao pecuniario "
  \o "pedunculo pegaso peixinho pejorativo pelvis penuria pequno petunia pezada piauiense "
  \o "pictorico pierro pigmeu pijama pilulas pimpolho pintura piorar pipocar piqueteiro pirulito "
  \o "pistoleiro pituitaria pivotar pixote pizzaria plistoceno plotar pluviometrico pneumonico "
  \o "poco podridao poetisa pogrom pois polvorosa pomposo ponderado pontudo populoso poquer "
  \o "porvir posudo potro pouso povoar prazo prezar privilegios proximo prussiano pseudopode "
  \o "psoriase pterossauros ptialina ptolemaico pudor pueril pufe pugilista puir pujante "
Portuguese_10 ==
  "pulverizar pumba punk purulento pustula putsch puxe quatrocentos quetzal quixotesco "
  \o "quotizavel rabujice racista radonio rafia ragu rajado ralo rampeiro ranzinza raptor "
  \o "raquitismo raro rasurar ratoeira ravioli razoavel reavivar rebuscar recusavel reduzivel "
  \o "reexposicao refutavel regurgitar reivindicavel rejuvenescimento relva remuneravel renunciar "
  \o "reorientar repuxo requisito resumo returno reutilizar revolvido rezonear riacho ribossomo "
  \o "ricota ridiculo rifle rigoroso rijo rimel rins rios riqueza respeito rissole ritualistico "
  \o "rivalizar rixa robusto rococo rodoviario roer rogo rojao rolo rompimento ronronar roqueiro "
  \o "rorqual rosto rotundo rouxinol roxo royal ruas rucula rudimentos ruela rufo rugoso ruivo "
  \o "rule rumoroso runico ruptura rural rustico rutilar saariano sabujo sacudir sadomasoquista "
  \o "safra sagui sais samurai santuario sapo saquear sartriano saturno saude sauva saveiro "
  \o "saxofonista sazonal scherzo script seara seborreia secura seduzir sefardim seguro seja "
  \o "selvas sempre senzala sepultura sequoia sestercio setuplo seus seviciar sezonismo shalom "
  \o "siames sibilante sicrano sidra sifilitico "
Portuguese_11 ==
  "signos silvo simultaneo sinusite sionista sirio sisudo situar sivan slide slogan soar "
  \o "sobrio socratico sodomizar soerguer software sogro soja solver somente sonso sopro soquete "
  \o "sorveteiro sossego soturno sousafone sovinice sozinho suavizar subverter sucursal "
  \o "sudoriparo sufragio sugestoes suite sujo sultao sumula suntuoso suor supurar suruba susto "
  \o "suturar suvenir tabuleta taco tadjique tafeta tagarelice taitiano talvez tampouco "
  \o "tanzaniano taoista tapume taquion tarugo tascar tatuar tautologico tavola taxionomista "
  \o "tchecoslovaco teatrologo tectonismo tedioso teflon tegumento teixo telurio temporas tenue "
  \o "teosofico tepido tequila terrorista testosterona tetrico teutonico teve texugo tiara tibia "
  \o "tiete tifoide tigresa tijolo tilintar timpano tintureiro tiquete tiroteio tisico titulos "
  \o "tive toar toboga tofu togoles toicinho tolueno tomografo tontura toponimo toquio torvelinho "
  \o "tostar toto touro toxina trazer trezentos trivialidade trovoar truta tuaregue tubular "
  \o "tucano tudo tufo tuiste tulipa tumultuoso tunisino tupiniquim turvo tutu ucraniano udenista "
  \o "ufanista ufologo ugaritico uiste "
Portuguese_12 ==
  "uivo ulceroso ulema ultravioleta umbilical umero umido umlaut unanimidade unesco ungulado "
  \o "unheiro univoco untuoso urano urbano urdir uretra urgente urinol urna urologo urro ursulina "
  \o "urtiga urupe usavel usbeque usei usineiro usurpar utero utilizar utopico uvular uxoricidio "
  \o "vacuo vadio vaguear vaivem valvula vampiro vantajoso vaporoso vaquinha varziano vasto "
  \o "vaticinio vaudeville vazio veado vedico veemente vegetativo veio veja veludo venusiano "
  \o "verdade verve vestuario vetusto vexatorio vezes viavel vibratorio victor vicunha vidros "
  \o "vietnamita vigoroso vilipendiar vime vintem violoncelo viquingue virus visualizar vituperio "
  \o "viuvo vivo vizir voar vociferar vodu vogar voile volver vomito vontade vortice vosso voto "
  \o "vovozinha voyeuse vozes vulva vupt western xadrez xale xampu xango xarope xaual xavante "
  \o "xaxim xenonio xepa xerox xicara xifopago xiita xilogravura xinxim xistoso xixi xodo xogum "
  \o "xucro zabumba zagueiro zambiano zanzar zarpar zebu zefiro zeloso zenite zumbi "

Japanese_1 ==
  "aaiikokusinn aaiisatu aaiida aaoozora aakatijann aakiru aakegata aakeru aakogareru aasaii "
  \o "aasahi aasiaato aaziwauu aazukaru aazuki aasobu aataeeru aatatameru aatarimaee aataru "
  \o "aatuii aatukauu aaqqsijuku aatumari aatumeru aatena aatehamaru aahiru aabura aaburu "
  \o "aahureru aamaii aamado aamayakasu aamari aamimono aamerika aayamaru aayumu aaraiiguma "
  \o "aarasi aarasuzi aaratameru aarayuru aarawasu aarigatouu aawaseru aawateru aannii aanngaii "
  \o "aannko aannzenn aannteii aannnaii aannmari iiiidasu iioonn iigaii iigaku iikiooii iikinari "
  \o "iikimono iikiru iikuzi iikubunn iikebana iikenn iikouu iikoku iikotu iisamasiii iisann "
  \o "iisiki iizijuuu iizijouu iiziwaru iizumi iizure iiseii iiseeebi iisekaii iiseki iizenn "
  \o "iisouurouu iisogasiii iidaii iidaku iitazura iitami iitariaa iitioouu iitizi iitido iitiba "
  \o "iitibu iitirijuuu iituka iiqqsijunn iiqqseii iiqqsouu iiqqtann iiqqti iiqqteii iiqqpouu "
  \o "iiteza iitenn iidouu iitoko iinaii iinaka iinemuri iinoti iinoru iihatu iibaru iihann "
  \o "iibiki iihinn iihuku iihenn iihouu iiminn iimouuto iimotare iimori iiyagaru iiyasu iiyokann "
  \o "iiyoku iiraii iirasuto iiriguti iirijouu iireii iiremono iireru "
Japanese_2 ==
  "iiroeennpitu iiwaii iiwauu iiwakann iiwaba iiwayuru iinngennmame iinnsatu iinnsijouu "
  \o "iinnyouu uueeki uueeru uuooza uugaii uukabu uukaberu uukiwa uukuraiina uukurere "
  \o "uuketamawaru uuketuke uuketoru uukemotu uukeru uugokasu uugoku uukonn uusagi uusinauu "
  \o "uusirogami uusuii uusugi uusuguraii uusumeru uusetu uutiaawase uutigawa uutiki uutijuuu "
  \o "uuqqkari uutukusiii uuqqtaeeru uuturu uudonn uunagi uunazi uunazuku uunaru uuneru uunouu "
  \o "uubuge uubugoee uumareru uumeru uumouu uuyamauu uuyoku uuragaeesu uuraguti uuranaii "
  \o "uuriaage uurikire uurusaii uuresiii uureyuki uureru uuroko uuwaki uuwasa uunnkouu uunntinn "
  \o "uunntenn uunndouu eeiieenn eeiiga eeiikijouu eeiigo eeiiseii eeiibunn eeiiyouu eeiiwa "
  \o "eeoori eegaoo eegaku eekitaii eekuseru eesijaku eesute eeturann eenogu eehouumaki eehonn "
  \o "eemaki eemozi eemono eeraii eerabu eeriaa eenneenn eennkaii eenngi eenngeki eennsijuuu "
  \o "eennzetu eennsoku eenntijouu eenntotu ooiikakeru ooiikosu ooiisiii ooiituku oouueenn "
  \o "oouusama oouuzi oouusetu oouutaii oouuhuku oouubeii oouuyouu ooeeru ooooii oooouu "
  \o "oooodooori ooooya ooooyoso ookaeeri ookazu oogamu ookawari ooginauu ookiru ookusama "
  \o "ookuzijouu ookurigana ookuru ookureru "
Japanese_3 ==
  "ookosu ookonauu ookoru oosaeeru oosanaii oosameru oosiiire oosieeru oozigi oozisann "
  \o "oosijare oosoraku oosowaru ootagaii ootaku oodayaka ootituku ooqqto ooturi oodekake "
  \o "ootosimono ootonasiii oodori oodorokasu oobasann oomaiiri oomedetouu oomoiide oomouu "
  \o "oomotaii oomotija ooyatu ooyayubi ooyobosu oorannda oorosu oonngaku oonnkeii oonnsija "
  \o "oonnsenn oonndann oonntijuuu oonndokeii kaaatu kaiiga gaiiki gaiikenn gaiikouu kaiisatu "
  \o "kaiisija kaiisuiiyoku kaiizenn kaiizouudo kaiituuu kaiitenn kaiitouu kaiihuku gaiiheki "
  \o "kaiihouu kaiiyouu gaiiraii kaiiwa kaeeru kaoori kakaeeru kagaku kagasi kagami kakugo "
  \o "kakutoku kazaru gazouu kataii katati gatijouu gaqqkijuuu gaqqkouu gaqqsann gaqqsijouu "
  \o "kanazawasi kanouu gahaku kabuka kahouu kahogo kamauu kamaboko kamereoonn kayuii kayouubi "
  \o "karaii karuii karouu kawaku kawara gannka kannkeii kannkouu kannsija kannsouu kanntann "
  \o "kannti gannbaru kiaaii kiaatu kiiiro giiinn kiuuii kiuunn kieeru kioouu kiooku kiooti "
  \o "kioonn kikaii kikaku kikannsija kikite kikubari kikurage kikennseii kikouu kikoeeru kikoku "
  \o "kisaii kisaku kisama kisaragi gizikagaku gisiki gizitaiikenn giziniqqteii gizijutusija "
  \o "kisuuu kiseii kiseki "
Japanese_4 ==
  "kisetu kisouu kizoku kizonn kitaeeru kitijouu kitueenn giqqtiri kitutuki kitune kiteii "
  \o "kidouu kidoku kinaii kinaga kinako kinugosi kinenn kinouu kinosita kihaku kibisiii kihinn "
  \o "kihuku kibunn kibouu kihonn kimaru kimitu kimuzukasiii kimeru kimodamesi kimoti kimono "
  \o "kijaku kiyaku gijuuuniku kiyouu kijouurijuuu kiraii kiraku kirinn kireii kiretu kiroku "
  \o "gironn kiwameru ginniiro kinnkakuzi kinnzijo kinnyouubi guaaii kuiizu kuuukann kuuuki "
  \o "kuuugunn kuuukouu guuuseii kuuusouu guuutara kuuuhuku kuuubo kukann kukijouu kugenn gukouu "
  \o "kusaii kusaki kusabana kusaru kusijami kusijouu kusunoki kusuriyubi kusege kusenn "
  \o "gutaiiteki kudasaru kutabireru kutikomi kutisaki kutusita guqqsuri kuturogu kutouutenn "
  \o "kudoku kunann kunekune kunouu kuhuuu kumiaawase kumitateru kumeru kuyakusijo kurasu "
  \o "kuraberu kuruma kureru kurouu kuwasiii gunnkann gunnsijoku gunntaii gunnte keaana keiikaku "
  \o "keiikenn keiiko keiisatu geiizijutu keiitaii geiinouuzinn keiireki keiiro keootosu "
  \o "keoorimono gekika gekigenn gekidann gekitinn gekitotu gekiha gekiyaku gekouu gekokuzijouu "
  \o "gezaii kesaki gezann kesiki kesigomu kesijouu gesuto ketaba ketijaqqpu ketirasu ketuaatu "
Japanese_5 ==
  "ketuii ketueeki keqqkonn ketuzijo keqqseki keqqteii ketumatu getuyouubi getureii keturonn "
  \o "gedoku ketobasu ketoru kenage kenasu kenami kenuki genetu kenenn kehaii gehinn kebukaii "
  \o "geboku kemari kemikaru kemusi kemuri kemono keraii kerokero kewasiii kennii kenneetu kennoo "
  \o "kennka gennki kenngenn kennkouu kennsaku kennsijuuu kennsuuu gennsouu kenntiku kennteii "
  \o "kenntouu kennnaii kennninn gennbutu kennma kennminn kennmeii kennrann kennri koaakuma "
  \o "koiinu koiibito gouuii kouueenn kouuoonn kouukann gouukijuuu gouukeii kouukouu kouusaii "
  \o "kouuzi kouusuii gouuseii kouusoku kouutaii kouutija kouutuuu kouuteii kouudouu kouunaii "
  \o "kouuhaii gouuhouu gouumann kouumoku kouuritu koeeru kooori gokaii gogatu gokann kokugo "
  \o "kokusaii kokutouu kokunaii kokuhaku koguma kokeii kokeru kokonoka kokoro kosame kositu "
  \o "kosuuu koseii koseki kozenn kosodate kotaii kotaeeru kotatu kotijouu koqqka kotukotu "
  \o "kotubann kotubu koteii kotenn kotogara kotosi kotoba kotori konagona konekone konomama "
  \o "konomi konoyo gohann kohituzi kohuuu kohunn koboreru gomaaabura komakaii gomasuri komatuna "
  \o "komaru komugiko komozi komoti komono komonn koyaku "
Japanese_6 ==
  "koyama koyuuu koyubi koyoii koyouu koriru korekusijonn koroqqke kowamote kowareru konniinn "
  \o "konnkaii konnki konnsijuuu konnsuii konndate konntonn konnnann konnbini konnponn konnmake "
  \o "konnya konnreii konnwaku zaiieeki saiikaii saiikinn zaiigenn zaiiko saiisijo saiiseii "
  \o "zaiitaku zaiitijuuu saiiteki zaiirijouu sauuna sakaiisi sagasu sakana sakamiti sagaru "
  \o "sagijouu sakusi sakuhinn sakura sakoku sakotu sazukaru zaseki satann satueeii zatuoonn "
  \o "zaqqka zatugaku saqqkijoku zaqqsi satuzinn zaqqsouu satutaba satumaiimo sateii satoiimo "
  \o "satouu satoooya satosi satoru sanouu sabaku sabisiii sabetu sahouu sahodo samasu samisiii "
  \o "samidare samuke sameru sayaeenndouu sayuuu sayouu sayoku sarada zarusoba sawayaka sawaru "
  \o "sanniinn sannka sannkijaku sannkouu sannsaii zannsijo sannsuuu sannseii sannso sannti "
  \o "sannma sannmi sannrann siaaii siaage siaasaqqte siaawase siiiku siiinn siuuti sieeii siooke "
  \o "sikaii sikaku zikann sigoto sisuuu zidaii sitauuke sitagi sitate sitami sitijouu sitirinn "
  \o "siqqkari situzi situmonn siteii siteki sitetu zitenn zidouu sinagire sinamono sinann sinema "
  \o "sinenn sinogu sinobu sihaii sibakari "
Japanese_7 ==
  "sihatu siharaii sihann sihijouu sihuku zibunn siheii sihouu sihonn simauu simaru siminn "
  \o "simukeru zimusijo simeii simeru simonn sijaiinn sijauunn sijaoonn zijagaiimo siyakusijo "
  \o "sijakuhouu sijakenn sijako sijazaii sijasinn sijasenn sijasouu sijataii sijatijouu "
  \o "sijaqqkinn zijama sijarinn sijareii ziyuuu zijuuusijo sijukuhaku zijusinn sijuqqseki sijumi "
  \o "sijuraba zijunnbann sijouukaii sijokutaku sijoqqkenn sijodouu sijomotu siraseru siraberu "
  \o "sinnka sinnkouu zinnzija sinnseiizi sinntiku sinnrinn suaage suaasi suaana zuaann suiieeii "
  \o "suiika suiitouu zuiibunn suiiyouubi suuugaku suuuzitu suuusenn suoodori sukima sukuuu "
  \o "sukunaii sukeru sugoii sukosi zusann suzusiii susumu susumeru suqqkari zuqqsiri zuqqto "
  \o "suteki suteru suneru sunoko suhada subarasiii zuhijouu zubunure suburi suhure subete suberu "
  \o "zuhouu subonn sumaii sumesi sumouu suyaki surasura surume suretigauu suroqqto suwaru "
  \o "sunnzenn sunnpouu seaabura seiikatu seiigenn seiizi seiiyouu seoouu sekaiikann sekininn "
  \o "sekimu sekiyu sekirannuunn sekenn sekouu sesuzi setaii setake seqqkaku seqqkijaku zeqqku "
  \o "seqqkenn seqqkotu seqqsatakuma setuzoku setudann setudenn seqqpann setubi setubunn setumeii "
Japanese_8 ==
  "seturitu senaka senobi sehaba sebiro sebone semaii semaru semeru semotare serihu zennaaku "
  \o "sennii senneeii sennka sennkijo sennku senngenn zenngo sennsaii sennsiju sennsuii sennseii "
  \o "sennzo senntaku senntijouu sennteii senntouu sennnuki sennnenn sennpaii zennbu zennpouu "
  \o "sennmu sennmennzijo sennmonn sennyaku sennyuuu sennyouu zennra zennrijaku sennreii sennro "
  \o "soaaku soiitogeru soiine souugannkijouu souuki souugo souusinn souudann souunann souubi "
  \o "souumenn souuri soeemono soeenn sogaii sogeki sokouu sokosoko sozaii sosina soseii sosenn "
  \o "sosogu sodateru sotuuu sotueenn soqqkann sotugijouu soqqketu soqqkouu soqqsenn soqqto "
  \o "sotogawa sotodura sonaeeru sonata sohubo soboku soboro somatu somaru somuku somuriee someru "
  \o "somosomo soyokaze soramame sorouu sonnkaii sonnkeii sonnzaii sonnsitu sonnzoku sonntijouu "
  \o "zonnbi zonnbunn sonnminn taaaii taiiiinn taiiuunn taiieeki taiioouu daiigaku taiiki "
  \o "taiiguuu taiikenn taiiko taiizaii daiizijouubu daiisuki taiisetu taiisouu daiitaii "
  \o "taiitijouu taiiteii daiidokoro taiinaii taiinetu taiinouu taiihann daiihijouu taiihuuu "
  \o "taiihenn taiiho taiimatubana taiiminngu taiimu taiimenn taiiyaki taiiyouu taiira taiirijoku "
  \o "taiiru "
Japanese_9 ==
  "taiiwann tauuee taeeru taoosu taooru taooreru takaii takane takibi takusann takoku takoyaki "
  \o "tasaii tasizann dazijare tasukeru tazusawaru tasogare tatakauu tataku tadasiii tatami "
  \o "tatibana daqqkaii daqqkijaku daqqko daqqsijutu daqqtaii tateru tatoeeru tanabata taninn "
  \o "tanuki tanosimi tahatu tabunn taberu tabouu tamago tamaru damuru tameiiki tamesu tameru "
  \o "tamotu tayasuii tayoru tarasu tarikihonngann tarijouu tariru taruto tareru tarennto "
  \o "taroqqto tawamureru dannaatu tannii tannoonn tannka tannki tannkenn tanngo tannsann "
  \o "tannzijouubi dannseii tannsoku tanntaii dannti tannteii tanntouu dannna tannninn dannnetu "
  \o "tannnouu tannpinn dannbouu tannmatu tannmeii dannretu dannro dannwa tiaaii tiaann tiiiki "
  \o "tiiisaii tieenn tikaii tikara tikijuuu tikinn tikeiizu tikenn tikoku tisaii tisiki "
  \o "tisirijouu tiseii tisouu titaii titann titiooya tituzijo titeki titenn tinuki tinuri tinouu "
  \o "tihijouu tiheiisenn tihouu timata timitu timidoro timeiido tijannkonabe tijuuuii tiyurijoku "
  \o "tijouusi tijosakukenn tirasi tirami tirigami tirijouu tirudo tiwawa tinntaii tinnmoku "
  \o "tuiika tuiitati tuuuka tuuuzijouu tuuuhann tuuuwa tukauu tukareru "
Japanese_10 ==
  "tukune tukuru tukene tukeru tugouu tutaeeru tuduku tutuzi tutumu tutomeru tunagaru tunami "
  \o "tunedune tunoru tubusu tumaranaii tumaru tumiki tumetaii tumori tumoru tuyoii turubo "
  \o "turumiku tuwamono tuwari teaasi teaate teaami teiioonn teiika teiiki teiikeii teiikoku "
  \o "teiisatu teiisi teiiseii teiitaii teiido teiineii teiihijouu teiihenn teiibouu teuuti "
  \o "teookure tekitouu tekubi dekoboko tesagijouu tesage tesuri tesouu tetigaii tetijouu "
  \o "tetugaku tetuduki deqqpa tetubouu tetuya denukaee tenuki tenuguii tenohira tehaii tebukuro "
  \o "tehuda tehodoki tehonn temaee temakizusi temizika temiyage terasu terebi tewake tewatasi "
  \o "dennaatu tenniinn tennkaii tennki tenngu tennkenn tenngoku tennsaii tennsi tennsuuu dennti "
  \o "tennteki tenntouu tennnaii tennpura tennbouudaii tennmetu tennrannkaii dennrijoku dennwa "
  \o "doaaii toiire douukann touukijuuu douugu touusi touumugi toooii toooka toooku tooosu toooru "
  \o "tokaii tokasu tokioori tokidoki tokuii tokusijuuu tokutenn tokuni tokubetu tokeii tokeru "
  \o "tokoya tosaka tosijokann tosouu totann totijuuu toqqkijuuu toqqkunn totuzenn totunijuuu "
  \o "todokeru totonoeeru tonaii tonaeeru tonari tonosama tobasu "
Japanese_11 ==
  "dobugawa tohouu tomaru tomeru tomodati tomoru doyouubi toraeeru tonnkatu donnburi naiikaku "
  \o "naiikouu naiisijo naiisu naiisenn naiisouu naoosu nagaii nakusu nageru nakouudo nasake "
  \o "natadekoko naqqtouu natuyasumi nanaoosi nanigoto nanimono naniwa nanoka nahuda namaiiki "
  \o "namaee namami namida nameraka nameru nayamu narauu narabi narabu nareru nawatobi nawabari "
  \o "niaauu niiigata niuuke niooii nikaii nigate nikibi nikusimi nikumann nigeru nisannkatannso "
  \o "nisiki nisemono nitizijouu nitiyouubi niqqka niqqki niqqkeii niqqkouu niqqsann niqqsijoku "
  \o "niqqsuuu niqqseki niqqteii ninauu nihonn nimame nimotu niyari nijuuuiinn nirinnsija "
  \o "niwatori ninnii ninnka ninnki ninngenn ninnsiki ninnzuuu ninnsouu ninntaii ninnti ninnteii "
  \o "ninnniku ninnpu ninnmari ninnmu ninnmeii ninnyouu nuiikugi nukasu nuguiitoru nuguuu "
  \o "nukumori nusumu numaeebi numeri nurasu nunntijaku neaage neiiki neiiru neiiro neguse "
  \o "nekutaii nekura nekoze nekomu nesage nesugosu nesoberu nedann netuii neqqsinn netuzouu "
  \o "neqqtaiigijo nebusoku nehuda nebouu nehorihahori nemaki nemawasi nemimi nemuii nemutaii "
  \o "nemoto nerauu newaza nenniiri nennoosi nennkann nennkinn nenngu "
Japanese_12 ==
  "nennza nennsi nenntijaku nenndo nennpi nennbutu nennmatu nennrijouu nennreii noiizu "
  \o "noooduma nogasu nokinami nokogiri nokosu nokoru noseru nozoku nozomu notamauu notihodo "
  \o "noqqku nobasu nohara noberu noboru nomimono noyama noraiinu noraneko norimono noriyuki "
  \o "norenn nonnki baaaii haaaku baaasann baiika baiiku haiikenn haiigo haiisinn haiisuii "
  \o "haiisenn haiisouu haiiti baiibaii haiiretu haeeru haooru hakaii bakari hakaru hakusiju "
  \o "hakenn hakobu hasami hasann hasigo basijo hasiru haseru pasokonn hasonn hatann hatimitu "
  \o "hatuoonn haqqkaku haduki haqqkiri haqqkutu haqqkenn haqqkouu haqqsann haqqsinn haqqtatu "
  \o "haqqtijuuu haqqtenn haqqpijouu haqqpouu hanasu hanabi hanikamu haburasi hamigaki hamukauu "
  \o "hametu hayaii hayasi harauu harouuxinn hawaii hannii hanneeii hannoonn hannkaku hannkijouu "
  \o "banngumi hannko hannsija hannsuuu hanndann pannti panntu hannteii hanntosi hannnouu hannpa "
  \o "hannbunn hannpenn hannbouuki hannmeii hannrann hannronn hiiiki hiuunn hieeru hikaku hikari "
  \o "hikaru hikann hikuii hiketu hikouuki hikoku hisaii hisasiburi hisann bizijutukann hisijo "

Russian_1 ==
  "abajur abzac abonent abrikos absurd avangard avgust aviaci7 avos3ka avtor agat agent "
  \o "agitator agnec agoni7 agregat advokat admiral adres ajiotaj azart azbuka azot aist aysberg "
  \o "akademi7 akvarium akkord akrobat aksioma akter akula akci7 algoritm alebarda alle7 almaz "
  \o "altar3 alfavit alhimik al2y al3bom al6miniy ambar ametist amnezi7 ampula amfora analiz "
  \o "angel anekdot animaci7 anketa anomali7 ansambl3 antenna apati7 apel3sin apofeoz apparat "
  \o "aprel3 apteka arabskiy arbuz argument arest ari7 arka armi7 aromat arsenal artist arhiv "
  \o "arwin asbest asketizm aspekt assorti astronom asfal3t ataka atel3e atlas atom atribut "
  \o "auditor aukcion aura afera afiwa ahine7 aceton a5roport babuwka bagaj bad37 baza baklajan "
  \o "balkon bamper bank baron basseyn batare7 bahroma bawn7 ba7n begstvo bedro bezdna bekon "
  \o "bel2y benzin bereg beseda betonn2y biatlon bibli7 biven3 bigudi bidon biznes bikini bilet "
  \o "binokl3 biologi7 birja biser bitva biceps blago bledn2y blizkiy blok blujdat3 bl6do "
Russian_2 ==
  "bl7ha bober bogat2y bodr2y boevoy bokal bol3woy bor3ba bosoy botinok bocman bo4ka bo7rin "
  \o "brat3 brevno brigada brosat3 br2zgi br6ki bublik bugor buduqee bukva bul3var bumaga bunt "
  \o "burn2y bus2 but2lka bufet buhta buwlat b2val2y b2l3 b2str2y b2t3 b6djet b6ro b6st vagon "
  \o "vajn2y vaza vakcina val6ta vampir vanna7 variant vassal vata vafl7 vahta vdova vd2hat3 "
  \o "veduqiy veer vejliv2y vezti veko velikiy vena verit3 vesel2y veter ve4er vewat3 veq3 ve7nie "
  \o "vzaimn2y vzbu4ka vzvod vzgl7d vzd2hat3 vzletat3 vzmah vznos vzor vzr2v vz2vat3 vz7tka "
  \o "vibraci7 vizit vilka vino virus viset3 vitrina vihr3 viwnev2y vkl64at3 vkus vlast3 vle43 "
  \o "vli7nie vl6bl7t3 vnewniy vnimanie vnuk vn7tn2y voda voevat3 vojd3 vozduh voyti vokzal volos "
  \o "vopros vorota vostok vpadat3 vpuskat3 vra4 vrem7 vru4at3 vsadnik vseobqiy vsp2wka vstre4a "
  \o "vtornik vulkan vurdalak vhodit3 v1ezd v2bor v2vod v2godn2y v2del7t3 v2ezjat3 v2jivat3 "
  \o "v2z2vat3 v2igr2w v2lezat3 v2nosit3 v2pivat3 v2sokiy v2hodit3 v24et "
Russian_3 ==
  "v2wka v27sn7t3 v7zat3 v7l2y gavan3 gadat3 gazeta gaiwnik galstuk gamma garanti7 gastroli "
  \o "gvardi7 gvozd3 gektar gel3 general geolog geroy geweft gibel3 gigant gil3za gimn gipoteza "
  \o "gitara glaz glina glotok glubokiy gl2ba gl7det3 gnat3 gnev gnit3 gnom gnut3 govorit3 "
  \o "godovoy golova gonka gorod gost3 gotov2y granica greh grib gromkiy gruppa gr2zt3 gr7zn2y "
  \o "guba gudet3 gul7t3 gumann2y gustoy guqa davat3 dalekiy dama dann2e darit3 dat3 da4a dver3 "
  \o "dvijenie dvor deb6t devuwka deduwka dejurn2y dezertir deystvie dekabr3 delo demokrat den3 "
  \o "deputat derjat3 des7tok detskiy deficit dewev2y de7tel3 djaz djins2 djungli dialog divan "
  \o "dieta dizayn dikiy dinamika diplom direktor disk dit7 di43 dlinn2y dnevnik dobr2y doverie "
  \o "dogovor dojd3 doza dokument doljen domawniy dopros doroga dohod docent do43 doqat2y draka "
  \o "drevniy drojat3 drug dr7n3 dubov2y duga dudka dukat dulo dumat3 duplo durak dut3 duhi duwa "
  \o "du5t d2mit3 d2n7 d2ra d2han3e d2wat3 "
Russian_4 ==
  "d37vol d6jina d6ym d6na d7d7 d7tel eger3 edin2y edkiy ejevika ejik ezda elka emkost3 erunda "
  \o "ehat3 jadn2y jajda jalet3 janr jara jat3 jgu4iy jdat3 jevat3 jelanie jem4ug jenqina jertva "
  \o "jestkiy je43 jivoy jidkost3 jizn3 jil3e jirn2y jitel3 jurnal j6ri zab2vat3 zavod zagadka "
  \o "zada4a zaje43 zayti zakon zame4at3 zanimat3 zapadn2y zarplata zas2pat3 zatrata zahvat "
  \o "zacepka za4et zaqita za7vka zvat3 zvezda zvonit3 zvuk zdanie zdewniy zdorov3e zebra zevat3 "
  \o "zelen2y zeml7 zenit zerkalo zefir zigzag zima zi7t3 zlak zloy zme7 znat3 znoy zod4iy "
  \o "zolotoy zombi zona zoopark zorkiy zra4ok zrenie zritel3 zubnoy z2bkiy z7t3 igla igolka "
  \o "igrat3 ide7 idiot idol idti ierarhi7 izbrat3 izvestie izgon7t3 izdanie izlagat3 izmen7t3 "
  \o "iznos izol7ci7 izr7dn2y izu4at3 iz2mat3 iz7qn2y ikona ikra ill6zi7 imbir3 imet3 imidj "
  \o "immunn2y imperi7 investor individ inerci7 injener inomarka institut interes infekci7 "
  \o "incident ippodrom iris ironi7 iskat3 istori7 ishodit3 is4ezat3 itog "
Russian_5 ==
  "i6l3 i6n3 kabinet kavaler kadr kazarma kayf kaktus kalitka kamen3 kanal kapitan kartina "
  \o "kassa kater kafe ka4estvo kawa ka6ta kvartira kvintet kvota kedr keks kenguru kepka kerosin "
  \o "ket4up kefir kibitka kivnut3 kidat3 kilometr kino kiosk kipet3 kirpi4 kist3 kitaec klass "
  \o "kletka klient kloun klub kl2k kl64 kl7tva kniga knopka knut kn7z3 kobura kover kogot3 "
  \o "kodeks koja kozel koyka kokteyl3 koleno kompani7 konec kopeyka korotkiy kost6m kotel kofe "
  \o "kowka krasn2y kreslo kri4at3 krov3 krupn2y kr2wa kr64ok kubok kuvwin kudr7v2y kuzov kukla "
  \o "kul3tura kumir kupit3 kurs kusok kuhn7 ku4a kuwat3 k6vet labirint lavka lager3 ladon3 "
  \o "lazern2y layner lakey lampa landwaft lapa larek laskov2y laureat la4uga la7t3 lgat3 lebed3 "
  \o "lev2y legkiy led7noy lejat3 lekci7 lenta lepestok lesnoy leto le43 lewiy ljiv2y liberal "
  \o "liven3 liga lider likovat3 lilov2y limon lini7 lipa lirika list litr lift lihoy lico li4n2y "
  \o "liwniy lobovoy "
Russian_6 ==
  "lovit3 logika lodka lojka lozung lokot3 lomat3 lono lopata lord los3 lotok lohmat2y lowad3 "
  \o "luja lukav2y luna lupit3 lu4wiy l2jn2y l2s2y l3vin2y l3gota l3dina l6bit3 l6dskoy l6stra "
  \o "l6t2y l7guwka magazin madam mazat3 mayor maksimum mal34ik manera mart massa mat3 mafi7 "
  \o "mahat3 ma4ta mawina ma5stro ma7k mgla mebel3 medved3 melkiy memuar2 men7t3 mera mesto metod "
  \o "mehanizm me4tat3 mewat3 migraci7 mizinec mikrofon million minuta mirovoy missi7 miting "
  \o "miwen3 mladwiy mnenie mnim2y mogila model3 mozg moyka mokr2y molodoy moment monah more most "
  \o "motor mohnat2y mo43 mowennik moqn2y mra4n2y mstit3 mudr2y muj4ina muz2ka muka mumi7 mundir "
  \o "muravey musor mutn2y mufta muha mu4it3 muwketer m2lo m2sl3 m2t3 m24at3 m2w3 m5tr m6zikl "
  \o "m7gkiy m7kiw m7so m7t2y m74ik nabor nav2k nagruzka nadejda naemn2y najat3 naz2vat3 naivn2y "
  \o "nakr2t3 nalog nameren nanosit3 napisat3 narod natura nauka naci7 na4at3 nebo nevesta "
  \o "negod7y nedel7 nejn2y neznanie nelep2y "
Russian_7 ==
  "nemal2y nepravda nervn2y nesti neft3 nehvatka ne4ist2y ne7sn2y niva nijniy nizkiy nikel3 "
  \o "nirvana nit3 ni437 niwa niqiy nov2y noga nojnic2 nozdr7 nol3 nomer norma nota no43 nowa "
  \o "no7br3 nrav nujn2y nutro n2newniy n2rnut3 n2t3 n6ans n6hat3 n7n7 oazis oba7nie obvin7t3 "
  \o "obgon7t3 obeqat3 objigat3 obzor obida oblast3 obmen obnimat3 oborona obraz obu4enie "
  \o "obhodit3 obwirn2y obqiy ob1ekt ob24n2y ob7zat3 oval3n2y oves ovoqi ovrag ovca ov4arka "
  \o "ognenn2y ogon3 ogromn2y ogurec odejda odinokiy odobrit3 ojidat3 ojog ozarenie ozero "
  \o "ozna4at3 okazat3 okean oklad okno okrug okt7br3 okurok olen3 opasn2y operaci7 opisat3 "
  \o "oplata opora opponent opros optimizm opuskat3 op2t orat3 orbita organ orden orel original "
  \o "orkestr ornament orujie osadok osveqat3 osen3 osina oskolok osmotr osnovnoy osob2y osujdat3 "
  \o "otbor otve4at3 otdat3 otec otz2v otkr2tie otme4at3 otnosit3 otpusk otrasl3 otstavka ottenok "
  \o "othodit3 ot4et ot1ezd oficer ohapka ohota ohrana ocenka o4ag o4ered3 o4iqat3 o4ki oweynik "
Russian_8 ==
  "owibka oquqenie pavil3on padat3 paek paket palec pam7t3 panel3 papka parti7 pasport patron "
  \o "pauza pafos pahnut3 pacient pa4ka pawn7 pevec pedagog peyzaj pel3men3 pensi7 pepel period "
  \o "pesn7 petl7 pehota pe4at3 pewehod peqera pianist pivo pidjak pikov2y pilot pioner pirog "
  \o "pisat3 pit3 picca piwuqiy piqa plan ple4o plita plohoy pl2t3 pl6s pl7j pobeda povod pogoda "
  \o "podumat3 poehat3 pojimat3 pozici7 poisk pokoy polu4at3 pomnit3 poni pooqr7t3 popadat3 "
  \o "por7dok post potok pohojiy poceluy po4va poqe4ina po5t po7snit3 pravo predmet problema prud "
  \o "pr2gat3 pr7moy psiholog ptica publika pugat3 pudra puz2r3 pul7 punkt purga pustoy put3 "
  \o "puhl2y pu4ok puwist2y p4ela pwenica p2l3 p2tka p2htet3 p2wn2y p3esa p37n2y p7tno rabota "
  \o "ravn2y radost3 razvitie rayon raketa ramka ranniy raport rasskaz raund raci7 rvat3 real3n2y "
  \o "rebenok revet3 region redakci7 reestr rejim rezkiy reyting reka religi7 remont renta "
  \o "replika resurs reforma recept re43 rewenie rjav2y "
Russian_9 ==
  "risunok ritm rifma robkiy rovn2y rogat2y roditel3 rojdenie rozov2y rokovoy rol3 roman "
  \o "ron7t3 rost rota roqa ro7l3 rubl3 rugat3 ruda ruj3e ruin2 ruka rul3 rum7n2y russkiy ru4ka "
  \o "r2ba r2vok r2dat3 r2jiy r2nok r2s3 r2t3 r2hl2y r2car3 r24ag r6kzak r6mka r7boy r7dovoy "
  \o "sabl7 sadov2y sajat3 salon samolet sani sapog saray satira sauna sahar sbegat3 sbivat3 sbor "
  \o "sb2t svad3ba svet svidanie svoboda sv7z3 sgorat3 sdvigat3 seans severn2y segment sedoy "
  \o "sezon seyf sekunda sel3skiy sem37 sent7br3 serdce set3 se4enie se7t3 signal sidet3 siz2y "
  \o "sila simvol siniy sirota sistema situaci7 si7t3 skazat3 skvajina skelet skidka sklad skor2y "
  \o "skr2vat3 sku4n2y slava sleza sli7nie slovo slu4ay sl2wat3 sl6na smeh smirenie smotret3 "
  \o "smutn2y sm2sl sm7tenie snar7d sneg snijenie snosit3 sn7t3 sob2tie sovet soglasie sojalet3 "
  \o "soyti sokol solnce somnenie sonn2y soobqat3 sopernik sort sostav sotn7 sous sociolog "
  \o "so4in7t3 so6z spat3 spewit3 spina splownoy sposob "
Russian_10 ==
  "sputnik sredstvo srok sr2vat3 stat3 stvol stena stihi storona strana student st2d sub1ekt "
  \o "suvenir sugrob sud3ba sueta sujdenie sukno sulit3 summa sunut3 suprug surov2y sustav sut3 "
  \o "suhoy suwa suqestvo sfera shema scena s4ast3e s4et s4itat3 swivat3 s1ezd s2nok s2pat3 s2r3e "
  \o "s2t2y s2qik s6jet s6rpriz tablica taejn2y tainstvo tayna taksi talant tamojn7 tanec tarelka "
  \o "taskat3 tahta ta4ka ta7t3 tvar3 tverd2y tvorit3 teatr tezis tekst telo tema ten3 teori7 "
  \o "tepl2y ter7t3 tesn2y tet7 tehnika te4enie tigr tipi4n2y tiraj titul tihiy tiwina tkan3 "
  \o "tovariq tolpa tonkiy toplivo torgovl7 toska to4ka toqiy tradici7 trevoga tribuna trogat3 "
  \o "trud tr6k tr7pka tualet tugoy tuloviqe tuman tundra tupoy turnir tuskl2y tufl7 tu4a tuwa "
  \o "t2kat3 t2s74a t3ma t6l3pan t6r3ma t7ga t7jel2y t7nut3 ubejdat3 ubirat3 ubogiy ub2tok "
  \o "uvajenie uver7t3 uvlekat3 ugnat3 ugol ugroza udar udivl7t3 udobn2y uezd ujas ujin uzel "
  \o "uzkiy uznavat3 uzor uyma uklon "
Russian_11 ==
  "ukol uksus uletat3 ulica ulu4wat3 ul2bka umet3 umilenie umn2y umol7t3 um2sel unijat3 "
  \o "unosit3 un2nie upast3 uplata upor uprekat3 upuskat3 uran urna uroven3 usad3ba userdie "
  \o "usilie uskor7t3 uslovie usmewka usnut3 uspet3 us2pat3 utewat3 utka uto4n7t3 utro ut6g "
  \o "uhodit3 ucelet3 u4astie u4en2y u4itel3 uwko uqerb u6tn2y u7sn7t3 fabrika favorit faza fayl "
  \o "fakt famili7 fantazi7 fara fasad fevral3 fel3dwer fenomen ferma figura fizika fil3m final "
  \o "firma fiwka flag fleyta flot fokus fol3klor fond forma foto fraza freska front frukt "
  \o "funkci7 furajka futbol f2rkat3 halat hamstvo haos harakter hata hvatat3 hvost hijina hil2y "
  \o "himi7 hirurg hitr2y hiqnik hlam hleb hlopat3 hmur2y hodit3 hoz7in hokkey holodn2y horowiy "
  \o "hotet3 hohotat3 hram hren hripl2y hronika hrupkiy hudojnik huligan hutor car3 cvet cel3 "
  \o "cement centr cep3 cerkov3 cikl cilindr cini4n2y cirk cisterna citata cifra c2plenok 4ado "
  \o "4aynik 4ast3 4awka 4elovek 4emodan 4epuha 4ern2y 4est3 "
Russian_12 ==
  "4etkiy 4ehol 4inovnik 4islo 4itat3 4lenstvo 4revat2y 4tenie 4uvstvo 4ugunn2y 4udo 4ujoy "
  \o "4uk4a 4ulok 4uma 4utkiy 4u4elo 4uw3 wablon wagat3 wayka wakal walaw wampun3 wans wapka "
  \o "warik wassi water wahta wawl2k wveyn2y wv2r7t3 wevelit3 wedevr weyka welkov2y weptat3 "
  \o "werst3 westerka wikarn2y winel3 wipet3 wirokiy wit3 wiwka wkaf wkola wkura wlang wlem "
  \o "wl6pka wl7pa wnur wokolad woroh wosse wofer wpaga wpion wpric wram wrift wtab wtora wtraf "
  \o "wtuka wt2k wuba wumet3 wurwat3 wutka qadit3 qedr2y qeka qel3 qenok qepka qetka quka "
  \o "5vol6ci7 5goizm 5kzamen 5kipaj 5konomi7 5kran 5kspert 5lement 5lita 5mblema 5migrant 5moci7 "
  \o "5nergi7 5pizod 5poha 5skiz 5sse 5strada 5tap 5tika 5t6d 5fir 5ffekt 5welon 6biley 6bka "
  \o "6jn2y 6mor 6nowa 6rist 7bloko 7vlenie 7goda 7dern2y 7dovit2y 7dro 7zva 7z2k 7yco 7kor3 "
  \o "7nvar3 7ponec 7rkiy 7rmarka 7rost3 7rus 7sn2y 7hta 74eyka 7qik "

Esperanto_1 ==
  "abako abdiki abelo abituriento ablativo abnorma abonantoj abrikoto absoluta abunda acetono "
  \o "acida adapti adekvata adheri adicii adjektivo administri adolesko adreso adstringa adulto "
  \o "advokato adzo aeroplano aferulo afgana afiksi aflaba aforismo afranki aftozo afusto agavo "
  \o "agento agiti aglo agmaniero agnoski agordo agrabla agtipo agutio aikido ailanto aina "
  \o "ajatolo ajgenvaloro ajlobulbo ajnlitera ajuto ajzi akademio akcepti akeo akiri aklamado "
  \o "akmeo akno akompani akrobato akselo aktiva akurata akvofalo alarmo albumo alcedo aldoni "
  \o "aleo alfabeto algo alhasti aligatoro alkoholo almozo alnomo alojo alpinisto alrigardi "
  \o "alskribi alta alumeto alveni alzaca amaso ambasado amdeklaro amebo amfibio amhara amiko "
  \o "amkanto amletero amnestio amoranto amplekso amrakonto amsterdama amuzi ananaso androido "
  \o "anekdoto anfrakto angulo anheli animo anjono ankro anonci anpriskribo ansero antikva "
  \o "anuitato aorto aparta aperti apika aplikado apneo apogi aprobi apsido apterigo apudesto "
  \o "araneo arbo ardeco aresti argilo aristokrato arko arlekeno armi arniko aromo "
Esperanto_2 ==
  "arpio arsenalo artisto aruba arvorto asaio asbesto ascendi asekuri asfalto asisti askalono "
  \o "asocio aspekti astro asulo atakonto atendi atingi atleto atmosfero atomo atropino atuto "
  \o "avataro aventuro aviadilo avokado azaleo azbuko azenino azilpetanto azoto azteka babili "
  \o "bacilo badmintono bagatelo bahama bajoneto baki balai bambuo bani baobabo bapti baro "
  \o "bastono batilo bavara bazalto beata bebofono bedo begonio behaviorismo bejlo bekero belarto "
  \o "bemolo benko bereto besto betulo bevelo bezoni biaso biblioteko biciklo bidaro bieno "
  \o "bifsteko bigamiulo bijekcio bikino bildo bimetalismo bindi biografio birdo biskvito "
  \o "bitlibro bivako bizara bjalistoka blanka bleki blinda blovi blua boato bobsledo bocvanano "
  \o "bodisatvo bofratino bogefratoj bohema boji bokalo boli bombono bona bopatrino bordo bosko "
  \o "botelo bovido brakpleno bretaro brikmuro broso brulema bubalo buctrapi budo bufedo bugio "
  \o "bujabeso buklo buldozo bumerango bunta burokrataro busbileto butero buzuko caro cebo ceceo "
  \o "cedro cefalo cejana cekumo celebri cemento cent "
Esperanto_3 ==
  "cepo certa cetera cezio ciano cibeto cico cidro cifero cigaredo ciklo cilindro cimbalo "
  \o "cinamo cipreso cirkonstanco cisterno citrono ciumi civilizado colo congo cunamo cvana dabi "
  \o "daco dadaismo dafodilo dago daimio dajmono daktilo dalio damo danki darmo datumoj dazipo "
  \o "deadmoni debeto decidi dedukti deerigi defendi degeli dehaki deirpunkto deklaracio delikata "
  \o "demandi dento dependi derivi desegni detrui devi deziri dialogo dicentro didaktika dieto "
  \o "diferenci digesti diino dikfingro diligenta dimensio dinamo diodo diplomo direkte diskuti "
  \o "diurno diversa dizajno dobrogitaro docento dogano dojeno doktoro dolori domego donaci "
  \o "dopado dormi dosierujo dotita dozeno drato dresi drinki droni druido duaranga dubi ducent "
  \o "dudek duelo dufoje dugongo duhufa duilo dujare dukato duloka dumtempe dungi duobla "
  \o "dupiedulo dura dusenca dutaga duuma duvalvuloj duzo ebena eblecoj ebono ebria eburo ecaro "
  \o "ecigi ecoj edelvejso editoro edro eduki edzino efektiva efiki efloreski egala egeco "
  \o "egiptologo eglefino egoista "
Esperanto_4 ==
  "egreto ejakuli ejlo ekarto ekbruligi ekceli ekde ekesti ekfirmao ekgliti ekhavi ekipi "
  \o "ekkapti eklezio ekmalsati ekonomio ekpluvi ekrano ekster ektiri ekumeno ekvilibro ekzemplo "
  \o "elasta elbalai elcento eldoni elektro elfari elgliti elhaki elipso elkovi ellasi elmeti "
  \o "elnutri elokventa elparoli elrevigi elstari elteni eluzita elvoki elzasa emajlo embaraso "
  \o "emerito emfazo eminenta emocio empiria emulsio enarkivigi enboteligi enciklopedio endorfino "
  \o "energio enfermi engluti enhavo enigmo enjekcio enketi enlanda enmeti enorma enplanti "
  \o "enradiki enspezo entrepreni enui envolvi enzimo eono eosto epitafo epoko epriskribebla "
  \o "epsilono erari erbio erco erekti ergonomia erikejo ermito erotika erpilo erupcio esameno "
  \o "escepti esenco eskapi esotera esperi estonto etapo etendi etfingro etikedo etlitero "
  \o "etmakleristo etnika etoso etradio etskala etullernejo evakui evento eviti evolui ezoko "
  \o "fabriko facila fadeno fagoto fajro fakto fali familio fanatiko farbo fasko fatala favora "
  \o "fazeolo febro federacio feino fekunda felo femuro fenestro fermi festi fetora "
Esperanto_5 ==
  "fezo fiasko fibro fidela fiera fifama figuro fiherbo fiinsekto fiksa filmo fimensa finalo "
  \o "fiolo fiparoli firmao fisko fitingo fiuzanto fivorto fiziko fjordo flago flegi flirti floro "
  \o "flugi fobio foceno foirejo fojfoje fokuso folio fomenti fonto formulo fosforo fotografi "
  \o "fratino fremda friti frosto frua ftizo fuelo fugo fuksia fulmilo fumanto fundamento fuorto "
  \o "furioza fusilo futbalo fuzio gabardino gado gaela gafo gagato gaja gaki galanta gamao ganto "
  \o "gapulo gardi gasto gavio gazeto geamantoj gebani geedzeco gefratoj geheno gejsero geko "
  \o "gelateno gemisto geniulo geografio gepardo geranio gestolingvo geto geumo gibono giganta "
  \o "gildo gimnastiko ginekologo gipsi girlando gistfungo gitaro glazuro glebo gliti globo gluti "
  \o "gnafalio gnejso gnomo gnuo gobio godetio goeleto gojo golfludejo gombo gondolo gorilo "
  \o "gospelo gotika granda greno griza groto grupo guano gubernatoro gudrotuko gufo gujavo "
  \o "guldeno gumi gupio guruo gusto guto guvernistino gvardio gverilo gvidanto habitato hadito "
Esperanto_6 ==
  "hafnio hagiografio haitiano hajlo hakbloko halti hamstro hangaro hapalo haro hasta hati "
  \o "havebla hazardo hebrea hedero hegemonio hejmo hektaro helpi hemisfero heni hepato herbo "
  \o "hesa heterogena heziti hiacinto hibrida hidrogeno hieroglifo higieno hihii hilumo himno "
  \o "hindino hiperteksto hirundo historio hobio hojli hokeo hologramo homido honesta hopi "
  \o "horizonto hospitalo hotelo huadi hubo hufumo hugenoto hukero huligano humana hundo huoj "
  \o "hupilo hurai husaro hutuo huzo iafoje iagrade iamaniere iarelate iaspeca ibekso ibiso idaro "
  \o "ideala idiomo idolo iele igluo ignori iguamo igvano ikono iksodo ikto iliaflanke "
  \o "ilkomputilo ilobreto ilremedo ilumini imagi imitado imperio imuna incidento industrio "
  \o "inerta infano ingenra inhali iniciati injekti inklino inokuli insekto inteligenta inundi "
  \o "inviti ioma ionosfero iperito ipomeo irana irejo irigacio ironio isato islamo istempo "
  \o "itinero itrio iuloke iumaniere iutempe izolita jado jaguaro jakto jama januaro japano "
  \o "jarringo jazo jenoj jesulo jetavio jezuito jodli joviala "
Esperanto_7 ==
  "juano jubileo judismo jufto juki julio juneca jupo juristo juste juvelo kabineto kadrato "
  \o "kafo kahelo kajako kakao kalkuli kampo kanti kapitalo karaktero kaserolo katapulto kaverna "
  \o "kazino kebabo kefiro keglo kejlo kekso kelka kemio kerno kesto kiamaniere kibuco kidnapi "
  \o "kielo kikero kilogramo kimono kinejo kiosko kirurgo kisi kitelo kivio klavaro klerulo klini "
  \o "klopodi klubo knabo knedi koalo kobalto kodigi kofro kohera koincidi kojoto kokoso koloro "
  \o "komenci kontrakto kopio korekte kosti kotono kovri krajono kredi krii krom kruco ksantino "
  \o "ksenono ksilofono ksosa kubuto kudri kuglo kuiri kuko kulero kumuluso kuneco kupro kuri "
  \o "kuseno kutimo kuvo kuzino kvalito kverko kvin kvoto labori laculo ladbotelo lafo laguno "
  \o "laikino laktobovino lampolumo landkarto laosa lapono larmoguto lastjare latitudo lavejo "
  \o "lazanjo leciono ledosako leganto lekcio lemura lentuga leopardo leporo lerni lesivo letero "
  \o "levilo lezi liano libera liceo lieno lifto ligilo likvoro lila limono "
Esperanto_8 ==
  "lingvo lipo lirika listo literatura liveri lobio logika lojala lokalo longa lordo lotado "
  \o "loza luanto lubriki lucida ludema luigi lukso luli lumbilda lunde lupago lustro lutilo "
  \o "luzerno maato maceri madono mafiano magazeno mahometano maizo majstro maketo malgranda mamo "
  \o "mandareno maorio mapigi marini masko mateno mazuto meandro meblo mecenato medialo mefito "
  \o "megafono mejlo mekanika melodia membro mendi mergi mespilo metoda mevo mezuri miaflanke "
  \o "micelio mielo migdalo mikrofilmo militi mimiko mineralo miopa miri mistera mitralo mizeri "
  \o "mjelo mnemoniko mobilizi mocio moderna mohajro mokadi molaro momento monero mopso mordi "
  \o "moskito motoro movimento mozaiko mueli mukozo muldi mumio munti muro muskolo mutacio "
  \o "muzikisto nabo nacio nadlo nafto naiva najbaro nanometro napo narciso naski naturo navigi "
  \o "naztruo neatendite nebulo necesa nedankinde neebla nefari negoco nehavi neimagebla nektaro "
  \o "nelonga nematura nenia neordinara nepra nervuro nesto nete neulo nevino nifo nigra "
  \o "nihilisto nikotino "
Esperanto_9 ==
  "nilono nimfeo nitrogeno nivelo nobla nocio nodozo nokto nomkarto norda nostalgio notbloko "
  \o "novico nuanco nuboza nuda nugato nuklea nuligi numero nuntempe nupto nura nutri oazo obei "
  \o "objekto oblikva obolo observi obtuza obuso oceano odekolono odori oferti oficiala ofsajdo "
  \o "ofte ogivo ogro ojstredoj okaze okcidenta okro oksido oktobro okulo oldulo oleo olivo omaro "
  \o "ombro omego omikrono omleto omnibuso onagro ondo oneco onidire onklino onlajna onomatopeo "
  \o "ontologio opaka operacii opinii oportuna opresi optimisto oratoro orbito ordinara orelo "
  \o "orfino organizi orienta orkestro orlo orminejo ornami ortangulo orumi oscedi osmozo "
  \o "ostocerbo ovalo ovingo ovoblanko ovri ovulado ozono pacama padeli pafilo pagigi pajlo "
  \o "paketo palaco pampelmo pantalono papero paroli pasejo patro pavimo peco pedalo peklita "
  \o "pelikano pensiono peplomo pesilo petanto pezoforto piano picejo piede pigmento pikema "
  \o "pilkoludo pimento pinglo pioniro pipromento pirato pistolo pitoreska piulo pivoti pizango "
  \o "planko plektita plibonigi ploradi "
Esperanto_10 ==
  "plurlingva pobo podio poeto pogranda pohora pokalo politekniko pomarbo ponevosto populara "
  \o "porcelana postkompreno poteto poviga pozitiva prapatroj precize pridemandi probable "
  \o "pruntanto psalmo psikologio psoriazo pterido publiko pudro pufo pugnobato pulovero pumpi "
  \o "punkto pupo pureo puso putrema puzlo rabate racionala radiko rafinado raguo rajto rakonti "
  \o "ralio rampi rando rapida rastruma ratifiki raviolo razeno reakcio rebildo recepto redakti "
  \o "reenigi reformi regiono rehavi reinspekti rejesi reklamo relativa rememori renkonti "
  \o "reorganizado reprezenti respondi retumilo reuzebla revidi rezulti rialo ribeli ricevi "
  \o "ridiga rifuginto rigardi rikolti rilati rimarki rinocero ripozi riski ritmo rivero "
  \o "rizokampo roboto rododendro rojo rokmuziko rolvorto romantika ronroni rosino rotondo rovero "
  \o "rozeto rubando rudimenta rufa rugbeo ruino ruleto rumoro runo rupio rura rustimuna ruzulo "
  \o "sabato sadismo safario sagaca sakfluto salti samtage sandalo sapejo sarongo satelito savano "
  \o "sbiro sciado seanco sebo sedativo segligno sekretario selektiva semajno senpeza separeo "
  \o "servilo sesangulo "
Esperanto_11 ==
  "setli seurigi severa sezono sfagno sfero sfinkso siatempe siblado sidejo siesto sifono "
  \o "signalo siklo silenti simpla sinjoro siropo sistemo situacio siverto sizifa skatolo skemo "
  \o "skianto sklavo skorpio skribisto skulpti skvamo slango sledeto sliparo smeraldo smirgi "
  \o "smokingo smuto snoba snufegi sobra sociano sodakvo sofo soifi sojlo soklo soldato somero "
  \o "sonilo sopiri sorto soulo soveto sparkado speciala spiri splito sporto sprita spuro stabila "
  \o "stelfiguro stimulo stomako strato studanto subgrupo suden suferanta sugesti suito sukero "
  \o "sulko sume sunlumo super surskribeto suspekti suturo svati svenfali svingi svopo tabako "
  \o "taglumo tajloro taksimetro talento tamen tanko taoismo tapioko tarifo tasko tatui taverno "
  \o "teatro tedlaboro tegmento tehoro teknika telefono tempo tenisejo teorie teraso testudo "
  \o "tetablo teujo tezo tialo tibio tielnomata tifono tigro tikli timida tinkturo tiom tiparo "
  \o "tirkesto titolo tiutempe tizano tobogano tofeo togo toksa tolerema tombolo tondri "
  \o "topografio tordeti tosti totalo traduko "
Esperanto_12 ==
  "tredi triangulo tropika trumpeto tualeto tubisto tufgrebo tuja tukano tulipo tumulto tunelo "
  \o "turisto tusi tutmonda tvisto udono uesto ukazo ukelelo ulcero ulmo ultimato ululi umbiliko "
  \o "unco ungego uniformo unkti unukolora uragano urbano uretro urino ursido uskleco usonigi "
  \o "utero utila utopia uverturo uzadi uzeblo uzino uzkutimo uzofini uzurpi uzvaloro vadejo "
  \o "vafleto vagono vahabismo vajco vakcino valoro vampiro vangharoj vaporo varma vasta vato "
  \o "vazaro veaspekta vedismo vegetalo vehiklo vejno vekita velstango vemieno vendi vepro "
  \o "verando vespero veturi veziko viando vibri vico videbla vifio vigla viktimo vila vimeno "
  \o "vintro violo vippuno virtuala viskoza vitro viveca viziti vobli vodko vojeto vokegi volbo "
  \o "vomema vono vortaro vosto voti vrako vringi vualo vulkano vundo vuvuzelo zamenhofa zapi "
  \o "zebro zefiro zeloto zenismo zeolito zepelino zeto zigzagi zinko zipo zirkonio zodiako zoeto "
  \o "zombio zono zoologio zorgi zukino zumilo "

Lojban_1 ==
  "backi bacru badna badri bajra bakfu bakni bakri baktu balji balni balre balvi bambu bancu "
  \o "bandu banfi bangu banli banro banxa banzu bapli barda bargu barja barna bartu basfa basna "
  \o "basti batci batke bavmi baxso bebna bekpi bemro bende bengo benji benre benzo bergu bersa "
  \o "berti besna besto betfu betri bevri bidju bifce bikla bilga bilma bilni bindo binra binxo "
  \o "birje birka birti bisli bitmu bitni blabi blaci blanu bliku bloti bolci bongu boske botpi "
  \o "boxfo boxna bradi brano bratu brazo bredi bridi brife briju brito brivo broda bruna budjo "
  \o "bukpu bumru bunda bunre burcu burna cabna cabra cacra cadga cadzu cafne cagna cakla calku "
  \o "calse canci cando cange canja canko canlu canpa canre canti carce carfu carmi carna cartu "
  \o "carvi casnu catke catlu catni catra caxno cecla cecmu cedra cenba censa centi cerda cerni "
  \o "certu "
Lojban_2 ==
  "cevni cfale cfari cfika cfila cfine cfipu ciblu cicna cidja cidni cidro cifnu cigla cikna "
  \o "cikre ciksi cilce cilfu cilmo cilre cilta cimde cimni cinba cindu cinfo cinje cinki cinla "
  \o "cinmo cinri cinse cinta cinza cipni cipra cirko cirla ciska cisma cisni ciste citka citno "
  \o "citri citsi civla cizra ckabu ckafi ckaji ckana ckape ckasu ckeji ckiku ckilu ckini ckire "
  \o "ckule ckunu cladu clani claxu cletu clika clinu clira clite cliva clupa cmaci cmalu cmana "
  \o "cmavo cmene cmeta cmevo cmila cmima cmoni cnano cnebo cnemu cnici cnino cnisa cnita cokcu "
  \o "condi conka corci cortu cpacu cpana cpare cpedu cpina cradi crane creka crepu cribe crida "
  \o "crino cripu crisa critu ctaru ctebi cteki ctile ctino ctuca cukla cukre cukta culno cumki "
  \o "cumla cunmi cunso cuntu cupra curmi curnu curve cusku cusna cutci cutne cuxna dacru dacti "
  \o "dadjo "
Lojban_3 ==
  "dakfu dakli damba damri dandu danfu danlu danmo danre dansu danti daplu dapma darca dargu "
  \o "darlu darno darsi darxi daski dasni daspo dasri datka datni datro decti degji dejni dekpu "
  \o "dekto delno dembi denci denmi denpa dertu derxi desku detri dicma dicra didni digno dikca "
  \o "diklo dikni dilcu dilma dilnu dimna dindi dinju dinko dinso dirba dirce dirgo disko ditcu "
  \o "divzi dizlo djacu djedi djica djine djuno donri dotco draci drani drata drudi dugri dukse "
  \o "dukti dunda dunja dunku dunli dunra dutso dzena dzipo facki fadni fagri falnu famti fancu "
  \o "fange fanmo fanri fanta fanva fanza fapro farka farlu farna farvi fasnu fatci fatne fatri "
  \o "febvi fegli femti fendi fengu fenki fenra fenso fepni fepri ferti festi fetsi figre filso "
  \o "finpe finti firca fisli fizbu flaci flalu flani flecu flese fliba flira foldi fonmo fonxa "
  \o "forca "
Lojban_4 ==
  "forse fraso frati fraxu frica friko frili frinu friti frumu fukpi fulta funca fusra fuzme "
  \o "gacri gadri galfi galtu galxe ganlo ganra ganse ganti ganxo ganzu gapci gapru garna gasnu "
  \o "gaspo gasta genja gento genxu gerku gerna gidva gigdo ginka girzu gismu glare gleki gletu "
  \o "glico glife glosa gluta gocti gomsi gotro gradu grafu grake grana grasu grava greku grusi "
  \o "grute gubni gugde gugle gumri gundi gunka gunma gunro gunse gunta gurni guska gusni gusta "
  \o "gutci gutra guzme jabre jadni jakne jalge jalna jalra jamfu jamna janbe janco janli jansu "
  \o "janta jarbu jarco jarki jaspu jatna javni jbama jbari jbena jbera jbini jdari jdice jdika "
  \o "jdima jdini jduli jecta jeftu jegvo jelca jemna jenca jendu jenmi jensi jerna jersi jerxo "
  \o "jesni jetce jetnu jgalu jganu jgari jgena jgina jgira jgita jibni jibri jicla jicmu jijnu "
  \o "jikca "
Lojban_5 ==
  "jikfi jikni jikru jilka jilra jimca jimpe jimte jinci jinda jinga jinku jinme jinru jinsa "
  \o "jinto jinvi jinzi jipci jipno jirna jisra jitfa jitro jivbu jivna jmaji jmifa jmina jmive "
  \o "jonse jordo jorne jubme judri jufra jukni jukpa julne julro jundi jungo junla junri junta "
  \o "jurme jursa jutsi juxre jvinu jviso kabri kacma kadno kafke kagni kajde kajna kakne kakpa "
  \o "kalci kalri kalsa kalte kamju kamni kampu kamre kanba kancu kandi kanji kanla kanpe kanro "
  \o "kansa kantu kanxe karbi karce karda kargu karli karni katci katna kavbu kazra kecti kekli "
  \o "kelci kelvo kenka kenra kensa kerfa kerlo kesri ketco ketsu kevna kibro kicne kijno kilto "
  \o "kinda kinli kisto klaji klaku klama klani klesi kliki klina kliru kliti klupe kluza kobli "
  \o "kogno kojna kokso kolme komcu konju korbi korcu korka korvo kosmu kosta krali kramu krasi "
  \o "krati "
Lojban_6 ==
  "krefu krici krili krinu krixa kruca kruji kruvi kubli kucli kufra kukte kulnu kumfa kumte "
  \o "kunra kunti kurfa kurji kurki kuspe kusru labno lacni lacpu lacri ladru lafti lakne lakse "
  \o "laldo lalxu lamji lanbi lanci landa lanka lanli lanme lante lanxe lanzu larcu larva lasna "
  \o "lastu latmo latna lazni lebna lelxe lenga lenjo lenku lerci lerfu libjo lidne lifri lijda "
  \o "limfa limna lince lindi linga linji linsi linto lisri liste litce litki litru livga livla "
  \o "logji loglo lojbo loldi lorxu lubno lujvo luksi lumci lunbe lunra lunsa luska lusto mabla "
  \o "mabru macnu majga makcu makfa maksi malsi mamta manci manfo mango manku manri mansa manti "
  \o "mapku mapni mapra mapti marbi marce marde margu marji marna marxa masno masti matci matli "
  \o "matne matra mavji maxri mebri megdo mekso melbi meljo melmi menli menre mensi mentu merko "
  \o "merli "
Lojban_7 ==
  "metfo mexno midju mifra mikce mikri milti milxe minde minji minli minra mintu mipri mirli "
  \o "misno misro mitre mixre mlana mlatu mleca mledi mluni mogle mokca moklu molki molro morji "
  \o "morko morna morsi mosra mraji mrilu mruli mucti mudri mugle mukti mulno munje mupli murse "
  \o "murta muslo mutce muvdu muzga nabmi nakni nalci namcu nanba nanca nandu nanla nanmu nanvi "
  \o "narge narju natfe natmi natsi navni naxle nazbi nejni nelci nenri nerde nibli nicfa nicte "
  \o "nikle nilce nimre ninja ninmu nirna nitcu nivji nixli nobli norgo notci nudle nukni nunmu "
  \o "nupre nurma nusna nutka nutli nuzba nuzlo pacna pagbu pagre pajni palci palku palma palne "
  \o "palpi palta pambe pamga panci pandi panje panka panlo panpi panra pante panzi papri parbi "
  \o "pardu parji pastu patfu patlu patxu paznu pelji pelxu pemci penbi pencu pendo penmi pensi "
  \o "pentu "
Lojban_8 ==
  "perli pesxu petso pevna pezli picti pijne pikci pikta pilda pilji pilka pilno pimlu pinca "
  \o "pindi pinfu pinji pinka pinsi pinta pinxe pipno pixra plana platu pleji plibu plini plipe "
  \o "plise plita plixa pluja pluka pluta pocli polje polno ponjo ponse poplu porpi porsi porto "
  \o "prali prami prane preja prenu preri preti prije prina pritu proga prosa pruce pruni pruri "
  \o "pruxi pulce pulji pulni punji punli pupsu purci purdi purmo racli ractu radno rafsi ragbi "
  \o "ragve rakle rakso raktu ralci ralju ralte randa rango ranji ranmi ransu ranti ranxi rapli "
  \o "rarna ratcu ratni rebla rectu rekto remna renro renvi respa rexsa ricfu rigni rijno rilti "
  \o "rimni rinci rindo rinju rinka rinsa rirci rirni rirxe rismi risna ritli rivbi rokci romge "
  \o "romlo ronte ropno rorci rotsu rozgu ruble rufsu runme runta rupnu rusko rutni sabji sabnu "
  \o "sacki "
Lojban_9 ==
  "saclu sadjo sakci sakli sakta salci salpo salri salta samcu sampu sanbu sance sanga sanji "
  \o "sanli sanmi sanso santa sarcu sarji sarlu sarni sarxe saske satci satre savru sazri sefsi "
  \o "sefta sekre selci selfu semto senci sengi senpi senta senva sepli serti sesre setca sevzi "
  \o "sfani sfasa sfofa sfubu sibli siclu sicni sicpi sidbo sidju sigja sigma sikta silka silna "
  \o "simlu simsa simxu since sinma sinso sinxa sipna sirji sirxo sisku sisti sitna sivni skaci "
  \o "skami skapi skari skicu skiji skina skori skoto skuba skuro slabu slaka slami slanu slari "
  \o "slasi sligu slilu sliri slovo sluji sluni smacu smadi smaji smaka smani smela smoka smuci "
  \o "smuni smusu snada snanu snidu snime snipa snuji snura snuti sobde sodna sodva softo solji "
  \o "solri sombo sonci sorcu sorgu sorni sorta sovda spaji spali spano spati speni spero spisa "
  \o "spita "
Lojban_10 ==
  "spofu spoja spuda sputu sraji sraku sralo srana srasu srera srito sruma sruri stace stagi "
  \o "staku stali stani stapa stasu stati steba steci stedu stela stero stici stidi stika stizu "
  \o "stodi stuna stura stuzi sucta sudga sufti suksa sumji sumne sumti sunga sunla surla sutra "
  \o "tabno tabra tadji tadni tagji taksi talsa tamca tamji tamne tanbo tance tanjo tanko tanru "
  \o "tansi tanxe tapla tarbi tarci tarla tarmi tarti taske tasmi tasta tatpi tatru tavla taxfu "
  \o "tcaci tcadu tcana tcati tcaxe tcena tcese tcica tcidu tcika tcila tcima tcini tcita temci "
  \o "temse tende tenfa tengu terdi terpa terto tifri tigni tigra tikpa tilju tinbe tinci tinsa "
  \o "tirna tirse tirxu tisna titla tivni tixnu toknu toldi tonga tordu torni torso traji trano "
  \o "trati trene tricu trina trixe troci tsaba tsali tsani tsapi tsiju tsina tsuku tubnu tubra "
  \o "tugni "
Lojban_11 ==
  "tujli tumla tunba tunka tunlo tunta tuple turko turni tutci tutle tutra vacri vajni valsi "
  \o "vamji vamtu vanbi vanci vanju vasru vasxu vecnu vedli venfu vensa vente vepre verba vibna "
  \o "vidni vidru vifne vikmi viknu vimcu vindu vinji vinta vipsi virnu viska vitci vitke vitno "
  \o "vlagi vlile vlina vlipa vofli voksa volve vorme vraga vreji vreta vrici vrude vrusi vubla "
  \o "vujnu vukna vukro xabju xadba xadji xadni xagji xagri xajmi xaksu xalbo xalka xalni xamgu "
  \o "xampo xamsi xance xango xanka xanri xansa xanto xarci xarju xarnu xasli xasne xatra xatsi "
  \o "xazdo xebni xebro xecto xedja xekri xelso xendo xenru xexso xigzo xindo xinmo xirma xislu "
  \o "xispo xlali xlura xorbo xorlo xotli xrabo xrani xriso xrotu xruba xruki xrula xruti xukmi "
  \o "xulta xunre xurdo xusra xutla zabna zajba zalvi zanru zarci zargu zasni zasti zbabu zbani "
  \o "zbasu "
Lojban_12 ==
  "zbepi zdani zdile zekri zenba zepti zetro zevla zgadi zgana zgike zifre zinki zirpu zivle "
  \o "zmadu zmiku zucna zukte zumri zungi zunle zunti zutse zvati zviki jbobau jbopre karsna "
  \o "cabdei zunsna gendra glibau nintadni pavyseljirna vlaste selbri latro'a zdakemkulgu'a "
  \o "mriste selsku fu'ivla tolmo'i snavei xagmau retsku ckupau skudji smudra prulamdei vokta'a "
  \o "tinju'i jefyfa'o bavlamdei kinzga jbocre jbovla xauzma selkei xuncku spusku jbogu'e pampe'o "
  \o "bripre jbosnu zi'evla gimste tolzdi velski samselpla cnegau velcki selja'e fasybau zanfri "
  \o "reisku favgau jbota'a rejgau malgli zilkai keidji tersu'i jbofi'e cnima'o mulgau ningau "
  \o "ponbau mrobi'o rarbau zmanei famyma'o vacysai jetmlu jbonunsla nunpe'i fa'orma'o crezenzu'e "
  \o "jbojbe cmicu'a zilcmi tolcando zukcfu depybu'i mencre matmau nunctu selma'o titnanba naldra "
  \o "jvajvo nunsnu nerkla cimjvo muvgau zipcpi runbau faumlu terbri balcu'e dragau smuvelcki "
  \o "piksku selpli bregau zvafa'i ci'izra noltruti'u samtci snaxa'a "

EnglishOld_1 ==
  "like just love know never want time out there make look eye down only think heart back then "
  \o "into about more away still them take thing even through long always world too friend tell "
  \o "try hand thought over here other need smile again much cry been night ever little said end "
  \o "some those around mind people girl leave dream left turn myself give nothing really off "
  \o "before something find walk wish good once place ask stop keep watch seem everything wait "
  \o "got yet made remember start alone run hope maybe believe body hate after close talk stand "
  \o "own each hurt help home god soul new many two inside should true first fear mean better "
  \o "play another gone change use wonder someone hair cold open best any behind happen water "
  \o "dark laugh stay forever name work show "
EnglishOld_2 ==
  "sky break came deep door put black together upon happy such great white matter fill past "
  \o "please burn cause enough touch moment soon voice scream anything stare sound red everyone "
  \o "hide kiss truth death beautiful mine blood broken very pass next forget tree wrong air "
  \o "mother understand lip hit wall memory sleep free high realize school might skin sweet "
  \o "perfect blue kill breath dance against fly between grow strong under listen bring sometimes "
  \o "speak pull person become family begin ground real small father sure feet rest young finally "
  \o "land across today different guy line fire reason reach second slowly write eat smell mouth "
  \o "step learn three floor promise breathe darkness push earth guess save song above along both "
  \o "color house almost sorry anymore brother okay dear game fade already apart warm beauty "
  \o "heard notice question shine "
EnglishOld_3 ==
  "began piece whole shadow secret street within finger point morning whisper child moon green "
  \o "story glass kid silence since soft yourself empty shall angel answer baby bright dad path "
  \o "worry hour drop follow power war half flow heaven act chance fact least tired children near "
  \o "quite afraid rise sea taste window cover nice trust lot sad cool force peace return blind "
  \o "easy ready roll rose drive held music beneath hang mom paint emotion quiet clear cloud few "
  \o "pretty bird outside paper picture front rock simple anyone meant reality road sense waste "
  \o "bit leaf thank happiness meet men smoke truly decide self age book form alive carry escape "
  \o "damn instead able ice minute throw catch leg ring course goodbye lead poem sick corner "
  \o "desire known problem remind shoulder suppose toward wave drink jump woman pretend sister "
  \o "week "
EnglishOld_4 ==
  "human joy crack grey pray surprise dry knee less search bleed caught clean embrace future "
  \o "king son sorrow chest hug remain sat worth blow daddy final parent tight also create lonely "
  \o "safe cross dress evil silent bone fate perhaps anger class scar snow tiny tonight continue "
  \o "control dog edge mirror month suddenly comfort given loud quickly gaze plan rush stone town "
  \o "battle ignore spirit stood stupid yours brown build dust hey kept pay phone twist although "
  \o "ball beyond hidden nose taken fail float pure somehow wash wrap angry cheek creature "
  \o "forgotten heat rip single space special weak whatever yell anyway blame job choose country "
  \o "curse drift echo figure grew laughter neck suffer worse yeah disappear foot forward knife "
  \o "mess somewhere stomach storm beg idea lift offer breeze field five often simply stuck win "
  \o "allow confuse enjoy "
EnglishOld_5 ==
  "except flower seek strength calm grin gun heavy hill large ocean shoe sigh straight summer "
  \o "tongue accept crazy everyday exist grass mistake sent shut surround table ache brain "
  \o "destroy heal nature shout sign stain choice doubt glance glow mountain queen stranger "
  \o "throat tomorrow city either fish flame rather shape spin spread ash distance finish image "
  \o "imagine important nobody shatter warmth became feed flesh funny lust shirt trouble yellow "
  \o "attention bare bite money protect amaze appear born choke completely daughter fresh "
  \o "friendship gentle probably six deserve expect grab middle nightmare river thousand weight "
  \o "worst wound barely bottle cream regret relationship stick test crush endless fault itself "
  \o "rule spill art circle join kick mask master passion quick raise smooth unless wander "
  \o "actually broke chair deal favorite gift note number sweat box chill clothes lady mark park "
  \o "poor sadness "
EnglishOld_6 ==
  "tie animal belong brush consume dawn forest innocent pen pride stream thick clay complete "
  \o "count draw faith press silver struggle surface taught teach wet bless chase climb enter "
  \o "letter melt metal movie stretch swing vision wife beside crash forgot guide haunt joke "
  \o "knock plant pour prove reveal steal stuff trip wood wrist bother bottom crawl crowd fix "
  \o "forgive frown grace loose lucky party release surely survive teacher gently grip speed "
  \o "suicide travel treat vein written cage chain conversation date enemy however interest "
  \o "million page pink proud sway themselves winter church cruel cup demon experience freedom "
  \o "pair pop purpose respect shoot softly state strange bar birth curl dirt excuse lord lovely "
  \o "monster order pack pants pool scene seven shame slide ugly among blade blonde closet creek "
  \o "deny drug eternity gain grade handle key linger pale prepare swallow "
EnglishOld_7 ==
  "swim tremble wheel won cast cigarette claim college direction dirty gather ghost hundred "
  \o "loss lung orange present swear swirl twice wild bitter blanket doctor everywhere flash "
  \o "grown knowledge numb pressure radio repeat ruin spend unknown buy clock devil early false "
  \o "fantasy pound precious refuse sheet teeth welcome add ahead block bury caress content depth "
  \o "despite distant marry purple threw whenever bomb dull easily grasp hospital innocence "
  \o "normal receive reply rhyme shade someday sword toe visit asleep bought center consider flat "
  \o "hero history ink insane muscle mystery pocket reflection shove silently smart soldier spot "
  \o "stress train type view whether bus energy explain holy hunger inch magic mix noise nowhere "
  \o "prayer presence shock snap spider study thunder trail admit agree bag bang bound butterfly "
  \o "cute exactly explode familiar fold further pierce reflect scent selfish sharp sink spring "
  \o "stumble "
EnglishOld_8 ==
  "universe weep women wonderful action ancient attempt avoid birthday branch chocolate core "
  \o "depress drunk especially focus fruit honest match palm perfectly pillow pity poison roar "
  \o "shift slightly thump truck tune twenty unable wipe wrote coat constant dinner drove egg "
  \o "eternal flight flood frame freak gasp glad hollow motion peer plastic root screen season "
  \o "sting strike team unlike victim volume warn weird attack await awake built charm crave "
  \o "despair fought grant grief horse limit message ripple sanity scatter serve split string "
  \o "trick annoy blur boat brave clearly cling connect fist forth imagination iron jock judge "
  \o "lesson milk misery nail naked ourselves poet possible princess sail size snake society "
  \o "stroke torture toss trace wise bloom bullet cell check cost darling during footstep fragile "
  \o "hallway hardly horizon invisible journey midnight mud nod pause relax shiver sudden value "
  \o "youth abuse "
EnglishOld_9 ==
  "admire blink breast bruise constantly couple creep curve difference dumb emptiness gotta "
  \o "honor plain planet recall rub ship slam soar somebody tightly weather adore approach bond "
  \o "bread burst candle coffee cousin crime desert flutter frozen grand heel hello language "
  \o "level movement pleasure powerful random rhythm settle silly slap sort spoken steel threaten "
  \o "tumble upset aside awkward bee blank board button card carefully complain crap deeply "
  \o "discover drag dread effort entire fairy giant gotten greet illusion jeans leap liquid march "
  \o "mend nervous nine replace rope spine stole terror accident apple balance boom childhood "
  \o "collect demand depression eventually faint glare goal group honey kitchen laid limb machine "
  \o "mere mold murder nerve painful poetry prince rabbit shelter shore shower soothe stair "
  \o "steady sunlight tangle tease treasure uncle begun bliss canvas cheer claw clutch commit "
  \o "crimson crystal delight doll existence "
EnglishOld_10 ==
  "express fog football gay goose guard hatred illuminate mass math mourn rich rough skip stir "
  \o "student style support thorn tough yard yearn yesterday advice appreciate autumn bank beam "
  \o "bowl capture carve collapse confusion creation dove feather girlfriend glory government "
  \o "harsh hop inner loser moonlight neighbor neither peach pig praise screw shield shimmer "
  \o "sneak stab subject throughout thrown tower twirl wow army arrive bathroom bump cease cookie "
  \o "couch courage dim guilt howl hum husband insult led lunch mock mostly natural nearly needle "
  \o "nerd peaceful perfection pile price remove roam sanctuary serious shiny shook sob stolen "
  \o "tap vain void warrior wrinkle affection apologize blossom bounce bridge cheap crumble "
  \o "decision descend desperately dig dot flip frighten heartbeat huge lazy lick odd opinion "
  \o "process puzzle quietly retreat score sentence separate situation skill soak square stray "
  \o "taint task tide underneath veil "
EnglishOld_11 ==
  "whistle anywhere bedroom bid bloody burden careful compare concern curtain decay defeat "
  \o "describe double dreamer driver dwell evening flare flicker grandma guitar harm horrible "
  \o "hungry indeed lace melody monkey nation object obviously rainbow salt scratch shown shy "
  \o "stage stun third tickle useless weakness worship worthless afternoon beard boyfriend bubble "
  \o "busy certain chin concrete desk diamond doom drawn due felicity freeze frost garden glide "
  \o "harmony hopefully hunt jealous lightning mama mercy peel physical position pulse punch quit "
  \o "rant respond salty sane satisfy savior sheep slept social sport tuck utter valley wolf aim "
  \o "alas alter arrow awaken beaten belief brand ceiling cheese clue confidence connection daily "
  \o "disguise eager erase essence everytime expression fan flag flirt foul fur giggle glorious "
  \o "ignorance law lifeless measure mighty muse north opposite paradise patience patient pencil "
  \o "petal plate ponder possibly practice slice spell "
EnglishOld_12 ==
  "stock strife strip suffocate suit tender tool trade velvet verse waist witch aunt bench "
  \o "bold cap certainly click companion creator dart delicate determine dish dragon drama drum "
  \o "dude everybody feast forehead former fright fully gas hook hurl invite juice manage moral "
  \o "possess raw rebel royal scale scary several slight stubborn swell talent tea terrible "
  \o "thread torment trickle usually vast violence weave acid agony ashamed awe belly blend blush "
  \o "character cheat common company coward creak danger deadly defense define depend desperate "
  \o "destination dew duck dusty embarrass engine example explore foe freely frustrate generation "
  \o "glove guilty health hurry idiot impossible inhale jaw kingdom mention mist moan mumble "
  \o "mutter observe ode pathetic pattern pie prefer puff rape rare revenge rude scrape spiral "
  \o "squeeze strain sunset suspend sympathy thigh throne total unseen weapon weary "

-----------------------------------------------------------------------------
(* The words of a string in which a blank follows each.                    *)
Cut(s) ==
  LET ends == SelectSeq([i \in 1 .. Len(s) |-> i], LAMBDA i : SubSeq(s, i, i) = " ")
  IN  [n \in DOMAIN ends |-> SubSeq(s, IF n = 1 THEN 1 ELSE ends[n - 1] + 1, ends[n] - 1)]

(* Of each language: its script, the characters that stand for one of its  *)
(* letters, unique_prefix_length, the flags of populate_maps, the words.   *)
Chinese_Simplified ==
  [script |-> "han", width |-> 4, prefix |-> 1, allow |-> {},
   words |-> Cut(Chinese_Simplified_1 \o Chinese_Simplified_2 \o Chinese_Simplified_3 \o Chinese_Simplified_4 \o Chinese_Simplified_5 \o Chinese_Simplified_6 \o 
            Chinese_Simplified_7 \o Chinese_Simplified_8 \o Chinese_Simplified_9 \o Chinese_Simplified_10 \o Chinese_Simplified_11 \o Chinese_Simplified_12)]
English ==
  [script |-> "latin", width |-> 1, prefix |-> 3, allow |-> {},
   words |-> Cut(English_1 \o English_2 \o English_3 \o English_4 \o English_5 \o English_6 \o 
            English_7 \o English_8 \o English_9 \o English_10 \o English_11 \o English_12)]
Dutch ==
  [script |-> "latin", width |-> 1, prefix |-> 4, allow |-> {},
   words |-> Cut(Dutch_1 \o Dutch_2 \o Dutch_3 \o Dutch_4 \o Dutch_5 \o Dutch_6 \o 
            Dutch_7 \o Dutch_8 \o Dutch_9 \o Dutch_10 \o Dutch_11 \o Dutch_12)]
French ==
  [script |-> "latin", width |-> 1, prefix |-> 4, allow |-> {},
   words |-> Cut(French_1 \o French_2 \o French_3 \o French_4 \o French_5 \o French_6 \o 
            French_7 \o French_8 \o French_9 \o French_10 \o French_11 \o French_12)]
Spanish ==
  [script |-> "latin", width |-> 1, prefix |-> 4, allow |-> {"short"},
   words |-> Cut(Spanish_1 \o Spanish_2 \o Spanish_3 \o Spanish_4 \o Spanish_5 \o Spanish_6 \o 
            Spanish_7 \o Spanish_8 \o Spanish_9 \o Spanish_10 \o Spanish_11 \o Spanish_12)]
German ==
  [script |-> "latin", width |-> 1, prefix |-> 4, allow |-> {},
   words |-> Cut(German_1 \o German_2 \o German_3 \o German_4 \o German_5 \o German_6 \o 
            German_7 \o German_8 \o German_9 \o German_10 \o German_11 \o German_12)]
Italian ==
  [script |-> "latin", width |-> 1, prefix |-> 4, allow |-> {},
   words |-> Cut(Italian_1 \o Italian_2 \o Italian_3 \o Italian_4 \o Italian_5 \o Italian_6 \o 
            Italian_7 \o Italian_8 \o Italian_9 \o Italian_10 \o Italian_11 \o Italian_12)]
Portuguese ==
  [script |-> "latin", width |-> 1, prefix |-> 4, allow |-> {},
   words |-> Cut(Portuguese_1 \o Portuguese_2 \o Portuguese_3 \o Portuguese_4 \o Portuguese_5 \o Portuguese_6 \o 
            Portuguese_7 \o Portuguese_8 \o Portuguese_9 \o Portuguese_10 \o Portuguese_11 \o Portuguese_12)]
Japanese ==
  [script |-> "kana", width |-> 2, prefix |-> 3, allow |-> {},
   words |-> Cut(Japanese_1 \o Japanese_2 \o Japanese_3 \o Japanese_4 \o Japanese_5 \o Japanese_6 \o 
            Japanese_7 \o Japanese_8 \o Japanese_9 \o Japanese_10 \o Japanese_11 \o Japanese_12)]
Russian ==
  [script |-> "cyrillic", width |-> 1, prefix |-> 4, allow |-> {},
   words |-> Cut(Russian_1 \o Russian_2 \o Russian_3 \o Russian_4 \o Russian_5 \o Russian_6 \o 
            Russian_7 \o Russian_8 \o Russian_9 \o Russian_10 \o Russian_11 \o Russian_12)]
Esperanto ==
  [script |-> "latin", width |-> 1, prefix |-> 4, allow |-> {},
   words |-> Cut(Esperanto_1 \o Esperanto_2 \o Esperanto_3 \o Esperanto_4 \o Esperanto_5 \o Esperanto_6 \o 
            Esperanto_7 \o Esperanto_8 \o Esperanto_9 \o Esperanto_10 \o Esperanto_11 \o Esperanto_12)]
Lojban ==
  [script |-> "latin", width |-> 1, prefix |-> 4, allow |-> {},
   words |-> Cut(Lojban_1 \o Lojban_2 \o Lojban_3 \o Lojban_4 \o Lojban_5 \o Lojban_6 \o 
            Lojban_7 \o Lojban_8 \o Lojban_9 \o Lojban_10 \o Lojban_11 \o Lojban_12)]
EnglishOld ==
  [script |-> "latin", width |-> 1, prefix |-> 4, allow |-> {"short", "duplicate"},
   words |-> Cut(EnglishOld_1 \o EnglishOld_2 \o EnglishOld_3 \o EnglishOld_4 \o EnglishOld_5 \o EnglishOld_6 \o 
            EnglishOld_7 \o EnglishOld_8 \o EnglishOld_9 \o EnglishOld_10 \o EnglishOld_11 \o EnglishOld_12)]

(* In the order in which find_seed_language tries them. *)
TriedInOrder ==
  <<Chinese_Simplified, English, Dutch, French, Spanish, German, Italian, Portuguese,
    Japanese, Russian, Esperanto, Lojban, EnglishOld>>
=============================================================================
